---- MODULE Spec2Model ----
(***************************************************************************)
(* A model of scripts/daily-audit.mjs: the audit core (scoring, quick      *)
(* wins, the six category evaluators, the industry classifier, the         *)
(* snapshot builder, the recommendation synthesizer, the product analyzer, *)
(* runAudit) and the data normalizer (transformColumnarData).              *)
(*                                                                         *)
(* Numbers.  JavaScript numbers are modelled by integers in a fixed unit   *)
(* that is stated at each definition (tenths, hundredths, micros), with    *)
(* exact rational arithmetic; Math.round is RoundDiv (round half up).      *)
(* The 64-bit floating point error of the source is not modelled.          *)
(* Strings are TLA+ strings; long literal texts are cut after their first  *)
(* words, interpolated values are kept.                                    *)
(***************************************************************************)
EXTENDS Integers, Sequences, FiniteSets, TLC

VARIABLES
    pc,          \* position of the run that the specification describes
    category,    \* SpecScore: the checks of the category handed to scoreCategory
    scored,      \* SpecScore: what scoreCategory returned
    cats,        \* SpecOverall: the scored categories handed to calculateOverallScore
    overall,     \* SpecOverall: what calculateOverallScore returned
    qcats,       \* SpecQuickWins: the categories handed to identifyQuickWins
    wins,        \* SpecQuickWins: what identifyQuickWins returned
    queryResult, \* SpecTransform: the object handed to transformColumnarData
    supplied,    \* SpecTransform: queryResult as it was at the first call
    out1,        \* SpecTransform: outcome of the first call
    out2,        \* SpecTransform: outcome of the second call on the same object
    auditAccount, \* SpecAudit: the account passed to runAudit
    auditData,   \* SpecAudit: the account data, dataset name -> dataset
    report,      \* SpecAudit: what runAudit returned, or that it raised
    recCats,     \* SpecRecommend: the scored categories handed to generateRecommendations
    recSnapshot, \* SpecRecommend: the snapshot handed to generateRecommendations
    retval,      \* what the function called by one of the other specifications returned
    history,     \* SpecHistory: the invocations of runAudit so far, each with its report
    fresh,       \* SpecHistory: the one invocation of runAudit by another process
    collected,   \* SpecCollect: the data object that collectAccountData fills
    failedQueries, \* SpecCollect: the names of the queries that threw so far
    answered,    \* SpecCollect: how many queries got another answer than the empty result
    manifest,    \* the manifest of manifest.json; without the file, the new manifest
    calls,       \* the calls of updateManifest so far, each with its accounts and date
    activeAccounts, \* SpecMain: the accounts with spend that main audits
    turn,        \* SpecMain: how many of activeAccounts the loop of main has taken
    auditedAccounts, \* SpecMain: auditedAccounts of main
    written,     \* SpecMain: the audit files written by writeAuditFile, in order
    thrown,      \* SpecMain: the positions in activeAccounts whose try block threw
    pushes       \* SpecMain: the dates of the calls of gitPush

scoreVars == <<category, scored>>
overallVars == <<cats, overall>>
qwVars == <<qcats, wins>>
transformVars == <<queryResult, supplied, out1, out2>>
auditVars == <<auditAccount, auditData, report>>
callVars == <<recCats, recSnapshot, retval>>
historyVars == <<history, fresh>>
collectVars == <<collected, failedQueries, answered>>
manifestVars == <<manifest, calls>>
loopVars == <<activeAccounts, turn, auditedAccounts, written, thrown, pushes>>
mainVars == <<historyVars, collectVars, manifestVars, loopVars>>
vars == <<pc, scoreVars, overallVars, qwVars, transformVars, auditVars, callVars, mainVars>>

(***************************************************************************)
(* Bounds of the model                                                     *)
(***************************************************************************)
MaxChecks == 3          \* checks in the category handed to scoreCategory
MaxQWChecks == 8        \* checks handed to identifyQuickWins, over all categories
QWCategorySize == 3     \* checks per category in the input of identifyQuickWins
MaxColumns == 2         \* columns of the result handed to transformColumnarData
MaxRows == 2            \* data rows of the result handed to transformColumnarData
MaxSet == 2             \* datasets (and the account) replaced by samples before runAudit
MaxActions == 3         \* conversion actions handed to checkConversionTracking
MaxRecChecks == 2       \* checks handed to generateRecommendations, over all categories
MaxMetricRows == 2      \* account-metric rows handed to buildSnapshot
MaxProducts == 9        \* shopping rows handed to analyzeProducts
MaxRuns == 3            \* invocations of runAudit in one process
MaxKeywords == 3        \* keyword rows handed to checkKeywordsQS
MaxDegraded == 5        \* datasets of the healthy account replaced by empty ones
MaxFaults == 2          \* queries of one collection that get another answer than the empty result
MaxCalls == 3           \* calls of updateManifest
MaxAccounts == 3        \* active accounts of one run of main

(***************************************************************************)
(* JavaScript helpers                                                      *)
(***************************************************************************)
\* null / undefined of a numeric slot; every number the model holds there is >= 0
null == -1

\* Math.round(a / b) for b > 0: the nearest integer, a half rounds up
RoundDiv(a, b) == (2 * a + b) \div (2 * b)

RECURSIVE SumSeq(_)
SumSeq(s) == IF s = <<>> THEN 0 ELSE Head(s) + SumSeq(Tail(s))

\* Array.prototype.slice(0, n)
Slice(s, n) == SubSeq(s, 1, IF Len(s) < n THEN Len(s) ELSE n)

(***************************************************************************)
(* Scoring tables (lines 47-59)                                            *)
(***************************************************************************)
\* severity multipliers, in tenths: 5.0, 3.0, 1.5, 0.5
SEVERITY == [Critical |-> 50, High |-> 30, Medium |-> 15, Low |-> 5]
\* result values, in tenths: 1.0, 0.5, 0.0
RESULT_SCORE == [PASS |-> 10, WARNING |-> 5, FAIL |-> 0]

CategoryNames == <<"Conversion Tracking", "Wasted Spend / Negatives", "Account Structure",
                   "Keywords & Quality Score", "Ads & Assets", "Settings & Targeting + Bidding">>

\* category weights, in hundredths: 0.25, 0.20, 0.15, 0.15, 0.15, 0.10
CATEGORY_WEIGHTS == [n \in {CategoryNames[i] : i \in 1..6} |->
    CASE n = "Conversion Tracking" -> 25
      [] n = "Wasted Spend / Negatives" -> 20
      [] n = "Account Structure" -> 15
      [] n = "Keywords & Quality Score" -> 15
      [] n = "Ads & Assets" -> 15
      [] n = "Settings & Targeting + Bidding" -> 10]

(***************************************************************************)
(* Scorer (lines 840-888)                                                  *)
(***************************************************************************)
\* SEVERITY[check.severity] || 1.0, in tenths
SevWeight_zero(severity) == IF severity \in DOMAIN SEVERITY THEN SEVERITY[severity] ELSE 0

SevWeight(severity) == IF severity \in DOMAIN SEVERITY THEN SEVERITY[severity] ELSE 10

ResultValue_warningOverPass(result) ==
    IF result = "WARNING" THEN 15
    ELSE IF result \in DOMAIN RESULT_SCORE THEN RESULT_SCORE[result] ELSE 0

\* RESULT_SCORE[check.result] || 0, in tenths
ResultValue(result) == IF result \in DOMAIN RESULT_SCORE THEN RESULT_SCORE[result] ELSE 0

scoreToGrade_strict(score) ==
    IF score = null THEN "N/A"
    ELSE IF score >= 900 THEN "A"
    ELSE IF score > 750 THEN "B"
    ELSE IF score >= 600 THEN "C"
    ELSE IF score >= 400 THEN "D"
    ELSE "F"

\* score is in tenths (a category score) here; calculateOverallScore passes whole points
\* and uses scoreToGradeInt
scoreToGrade(score) ==
    IF score = null THEN "N/A"
    ELSE IF score >= 900 THEN "A"
    ELSE IF score >= 750 THEN "B"
    ELSE IF score >= 600 THEN "C"
    ELSE IF score >= 400 THEN "D"
    ELSE "F"

\* scoreToGrade on a number of whole points
scoreToGradeInt(healthScore) == scoreToGrade(10 * healthScore)

scoreCategory_nullOnZero(cat) ==
    LET validChecks == SelectSeq(cat.checks, LAMBDA c : c.result # "N/A")
        earned == SumSeq([i \in DOMAIN validChecks |->
                      ResultValue(validChecks[i].result) * SevWeight(validChecks[i].severity)])
        possible == SumSeq([i \in DOMAIN validChecks |-> SevWeight(validChecks[i].severity)])
        score == IF possible > 0 THEN RoundDiv(100 * earned, possible) ELSE 0
    IN IF Len(validChecks) = 0 \/ score = 0 THEN [score |-> null, grade |-> "N/A"]
       ELSE [score |-> score, grade |-> scoreToGrade(score)]

scoreCategory_keepNA(cat) ==
    LET earned == SumSeq([i \in DOMAIN cat.checks |->
                      ResultValue(cat.checks[i].result) * SevWeight(cat.checks[i].severity)])
        possible == SumSeq([i \in DOMAIN cat.checks |-> SevWeight(cat.checks[i].severity)])
        score == IF possible > 0 THEN RoundDiv(100 * earned, possible) ELSE 0
    IN IF Len(cat.checks) = 0 THEN [score |-> null, grade |-> "N/A"]
       ELSE [score |-> score, grade |-> scoreToGrade(score)]

\* the score is in tenths of a point: Math.round((earned / possible) * 1000) / 10
scoreCategory(cat) ==
    LET validChecks == SelectSeq(cat.checks, LAMBDA c : c.result # "N/A")
        \* earned in hundredths, possible in tenths
        earned == SumSeq([i \in DOMAIN validChecks |->
                      ResultValue(validChecks[i].result) * SevWeight(validChecks[i].severity)])
        possible == SumSeq([i \in DOMAIN validChecks |-> SevWeight(validChecks[i].severity)])
        score == IF possible > 0 THEN RoundDiv(100 * earned, possible) ELSE 0
    IN IF Len(validChecks) = 0 THEN [score |-> null, grade |-> "N/A"]
       ELSE [score |-> score, grade |-> scoreToGrade(score)]

gradeVerdict_noB(grade) ==
    CASE grade \in {"A", "B"} -> "Well-optimized account"
      [] grade = "C" -> "Needs attention - notable issues"
      [] grade = "D" -> "Poor - significant problems present"
      [] grade = "F" -> "Urgent intervention required"
      [] OTHER -> "Assessment pending"

gradeVerdict(grade) ==
    CASE grade = "A" -> "Well-optimized account"
      [] grade = "B" -> "Good with improvement opportunities"
      [] grade = "C" -> "Needs attention - notable issues"
      [] grade = "D" -> "Poor - significant problems present"
      [] grade = "F" -> "Urgent intervention required"
      [] OTHER -> "Assessment pending"

\* CATEGORY_WEIGHTS[cat.name] || 0
CatWeight(name) == IF name \in DOMAIN CATEGORY_WEIGHTS THEN CATEGORY_WEIGHTS[name] ELSE 0

calculateOverallScore_allWeights(categories) ==
    LET included == SelectSeq(categories, LAMBDA cat : cat.score # null)
        weightedScore == SumSeq([i \in DOMAIN included |-> included[i].score * CatWeight(included[i].name)])
        totalWeight == SumSeq([i \in DOMAIN categories |-> CatWeight(categories[i].name)])
    IN IF totalWeight = 0 THEN [healthScore |-> 0, grade |-> "F"]
       ELSE LET healthScore == RoundDiv(weightedScore, 10 * totalWeight)
            IN [healthScore |-> healthScore, grade |-> scoreToGradeInt(healthScore)]

\* cat.score is in tenths and the weights in hundredths; healthScore is in whole points
calculateOverallScore(categories) ==
    LET included == SelectSeq(categories, LAMBDA cat : cat.score # null)
        weightedScore == SumSeq([i \in DOMAIN included |-> included[i].score * CatWeight(included[i].name)])
        totalWeight == SumSeq([i \in DOMAIN included |-> CatWeight(included[i].name)])
    IN IF totalWeight = 0 THEN [healthScore |-> 0, grade |-> "F"]
       ELSE LET healthScore == RoundDiv(weightedScore, 10 * totalWeight)
            IN [healthScore |-> healthScore, grade |-> scoreToGradeInt(healthScore)]

(***************************************************************************)
(* Quick wins (lines 891-942)                                              *)
(***************************************************************************)
\* the rule ids of the table `actions` of getQuickWinAction, with the first words of
\* each text
QuickWinActions ==
    [id \in {"G42", "G43", "G44", "G47", "G-CT1", "G05", "G36", "G04", "G14", "G11", "G12",
             "G56", "G57", "G50", "G53", "G16", "G-AD1", "G06", "G08"} |->
        CASE id = "G42" -> "Set up conversion tracking immediately"
          [] id = "G43" -> "Enable Enhanced Conversions"
          [] id = "G44" -> "Implement server-side tracking"
          [] id = "G47" -> "Fix conversion action priority"
          [] id = "G-CT1" -> "Remove duplicate conversion actions"
          [] id = "G05" -> "Create a brand Search campaign"
          [] id = "G36" -> "Switch to Smart Bidding"
          [] id = "G04" -> "Consolidate fragmented campaigns"
          [] id = "G14" -> "Build 3+ themed negative keyword lists"
          [] id = "G11" -> "Fix geo targeting"
          [] id = "G12" -> "Turn off Display Network on Search campaigns"
          [] id = "G56" -> "Add remarketing audiences"
          [] id = "G57" -> "Upload Customer Match list"
          [] id = "G50" -> "Add 4+ sitelink extensions"
          [] id = "G53" -> "Add image extensions"
          [] id = "G16" -> "Pause or add negative product groups"
          [] id = "G-AD1" -> "Create new ad variations"
          [] id = "G06" -> "Launch a PMax campaign"
          [] id = "G08" -> "Reallocate budget"]

\* actions[check.id] || check.finding
getQuickWinAction(check) ==
    IF check.id \in DOMAIN QuickWinActions THEN QuickWinActions[check.id]
    ELSE check.finding

\* times[checkId] || '15 min'
getEstimatedTime(checkId) ==
    CASE checkId \in {"G42", "G05", "G-AD1"} -> "30 min"
      [] checkId = "G43" -> "5 min"
      [] checkId = "G44" -> "2 hrs"
      [] checkId \in {"G47", "G14", "G56", "G50", "G08"} -> "15 min"
      [] checkId \in {"G-CT1", "G36", "G57", "G53", "G16"} -> "10 min"
      [] checkId \in {"G04", "G06"} -> "1 hr"
      [] checkId \in {"G11", "G12"} -> "2 min"
      [] OTHER -> "15 min"

\* the checks of all categories, in category order and then in check order
RECURSIVE AllChecks(_)
AllChecks(categories) ==
    IF categories = <<>> THEN <<>>
    ELSE Head(categories).checks \o AllChecks(Tail(categories))

QuickWin(check) ==
    [action |-> getQuickWinAction(check), impact |-> check.severity,
     time |-> getEstimatedTime(check.id), check |-> check.id]

identifyQuickWins_anyResult(categories) ==
    LET wins_ == SelectSeq(AllChecks(categories), LAMBDA check :
                     check.severity = "Critical" \/ check.severity = "High")
    IN Slice([i \in DOMAIN wins_ |-> QuickWin(wins_[i])], 7)

identifyQuickWins_last7(categories) ==
    LET wins_ == SelectSeq(AllChecks(categories), LAMBDA check :
                     check.result = "FAIL" /\ (check.severity = "Critical" \/ check.severity = "High"))
        all == [i \in DOMAIN wins_ |-> QuickWin(wins_[i])]
    IN IF Len(all) <= 7 THEN all ELSE SubSeq(all, Len(all) - 6, Len(all))

identifyQuickWins(categories) ==
    LET wins_ == SelectSeq(AllChecks(categories), LAMBDA check :
                     check.result = "FAIL" /\ (check.severity = "Critical" \/ check.severity = "High"))
    IN Slice([i \in DOMAIN wins_ |-> QuickWin(wins_[i])], 7)

(***************************************************************************)
(* Data normalizer (lines 169-192)                                         *)
(*                                                                         *)
(* A JavaScript value is a record: t is its type, s its text (strings), n  *)
(* its number (numbers; 1 / 0 for true / false), o its properties          *)
(* (objects: a function from keys to values), and ref tells which cell of  *)
(* the data row under transformation the object is (0: none of them), as   *)
(* the source stores row[i] itself, not a copy.                            *)
(***************************************************************************)
JSUndefined == [t |-> "undefined", s |-> "", n |-> 0, o |-> <<>>, ref |-> 0]
JSString(s) == [t |-> "string", s |-> s, n |-> 0, o |-> <<>>, ref |-> 0]
JSNumber(n) == [t |-> "number", s |-> "", n |-> n, o |-> <<>>, ref |-> 0]
JSBoolean(b) == [t |-> "boolean", s |-> "", n |-> IF b THEN 1 ELSE 0, o |-> <<>>, ref |-> 0]
JSObject(o) == [t |-> "object", s |-> "", n |-> 0, o |-> o, ref |-> 0]

\* what `!v` negates
Truthy(v) ==
    \/ v.t = "object"
    \/ v.t = "string" /\ v.s # ""
    \/ v.t = "number" /\ v.n # 0
    \/ v.t = "boolean" /\ v.n = 1

RECURSIVE SplitFrom(_, _)
\* the parts of cur \o str between the dots of str
SplitFrom(str, cur) ==
    IF str = "" THEN <<cur>>
    ELSE IF Head(str) = "." THEN <<cur>> \o SplitFrom(Tail(str), "")
    ELSE SplitFrom(Tail(str), cur \o Head(str))

\* col.split('.')
Split(col) == SplitFrom(col, "")

\* if (val === 'true') val = true; else if (val === 'false') val = false;
Coerce(val) ==
    IF val.t = "string" /\ val.s = "true" THEN JSBoolean(TRUE)
    ELSE IF val.t = "string" /\ val.s = "false" THEN JSBoolean(FALSE)
    ELSE val

RECURSIVE AssignPath(_, _, _)
\* The walk of lines 179-188 from `current` along `parts`, ending in
\* current[last] = val.  Returns [raised, v]: v is `current` after the assignment.
\* The file is an ES module, hence strict code: creating a property on a primitive
\* (a string, a number, true) raises a TypeError.
AssignPath(current, parts, val) ==
    IF current.t # "object" THEN [raised |-> TRUE, v |-> current]
    ELSE IF Len(parts) = 1
         THEN [raised |-> FALSE,
               v |-> [current EXCEPT !.o = [k \in DOMAIN current.o \cup {parts[1]} |->
                                               IF k = parts[1] THEN val ELSE current.o[k]]]]
         ELSE LET key == parts[1]
                  \* if (!current[parts[j]]) current[parts[j]] = {};
                  child == IF key \in DOMAIN current.o /\ Truthy(current.o[key])
                           THEN current.o[key] ELSE JSObject(<<>>)
                  r == AssignPath(child, Tail(parts), val)
              IN [raised |-> r.raised,
                  v |-> [current EXCEPT !.o = [k \in DOMAIN current.o \cup {key} |->
                                                  IF k = key THEN r.v ELSE current.o[k]]]]

RECURSIVE FindRef(_, _)
\* the objects inside v that are cell i of the row (at most one)
FindRef(v, i) ==
    IF v.t # "object" THEN {}
    ELSE (IF v.ref = i THEN {v} ELSE {}) \cup UNION {FindRef(v.o[k], i) : k \in DOMAIN v.o}

RECURSIVE Unref(_)
\* v as a plain value
Unref(v) ==
    IF v.t # "object" THEN v
    ELSE [v EXCEPT !.ref = 0, !.o = [k \in DOMAIN v.o |-> Unref(v.o[k])]]

\* row[i] as the source reads it: the cell itself when it is an object
Cell(row, i) == IF row[i].t = "object" THEN [row[i] EXCEPT !.ref = i] ELSE row[i]

\* the row after the walk for one column: a cell that is an object and sits in obj holds
\* what obj holds there
SyncRow(row, obj) ==
    [i \in DOMAIN row |->
        LET found == FindRef(obj, i)
        IN IF found = {} THEN row[i] ELSE Unref(CHOOSE v \in found : TRUE)]

RECURSIVE TransformColumns(_, _, _, _)
\* columns.forEach((col, i) => ...) from column i on, for one row; obj is the record
\* built so far.  Returns [raised, obj, row].
TransformColumns(columns, i, obj, row) ==
    IF i > Len(columns) THEN [raised |-> FALSE, obj |-> obj, row |-> row]
    ELSE LET r == AssignPath(obj, Split(columns[i]), Coerce(Cell(row, i)))
         IN IF r.raised THEN [raised |-> TRUE, obj |-> obj, row |-> row]
            ELSE TransformColumns(columns, i + 1, r.v, SyncRow(row, r.v))

RECURSIVE TransformRows(_, _, _, _)
\* data.map(row => ...) from row k on; acc holds the records of the rows before.
\* Returns [raised, rows, data].
TransformRows(columns, data, k, acc) ==
    IF k > Len(data) THEN [raised |-> FALSE, rows |-> acc, data |-> data]
    ELSE LET r == TransformColumns(columns, 1, JSObject(<<>>), data[k])
         IN IF r.raised THEN [raised |-> TRUE, rows |-> <<>>, data |-> data]
            ELSE TransformRows(columns, [data EXCEPT ![k] = r.row], k + 1,
                               Append(acc, Unref(r.obj)))

\* A query result: kind is "undefined" (no value), "string" (text that callTool could not
\* parse) or "object"; hasResult tells whether it has a truthy `result`; columnsKind and
\* dataKind are "undefined", "array" or, for data, "object" (a truthy value without map).
NoQuery == [kind |-> "undefined", hasResult |-> FALSE, columnsKind |-> "undefined",
            columns |-> <<>>, dataKind |-> "undefined", data |-> <<>>]

NoOutcome == [called |-> FALSE, raised |-> FALSE, rows |-> <<>>]

\* Returns [raised, rows, queryResult]: the array returned, or raised, and the argument
\* object as the call leaves it.
transformColumnarData(q) ==
    IF q.kind # "object" \/ ~q.hasResult
    THEN [raised |-> FALSE, rows |-> <<>>, queryResult |-> q]
    ELSE IF q.columnsKind = "undefined" \/ q.dataKind = "undefined"
    THEN [raised |-> FALSE, rows |-> <<>>, queryResult |-> q]
    ELSE IF q.dataKind # "array"
    \* data.map is not a function
    THEN [raised |-> TRUE, rows |-> <<>>, queryResult |-> q]
    ELSE LET r == TransformRows(q.columns, q.data, 1, <<>>)
         IN [raised |-> r.raised, rows |-> r.rows,
             queryResult |-> [q EXCEPT !.data = r.data]]

(***************************************************************************)
(* Account data (lines 62-127, 224-242)                                    *)
(*                                                                         *)
(* A dataset is [kind, rows]: kind is "array", or "undefined" (the name is *)
(* missing), "null" or "object" (a value that is no array).  A row is a    *)
(* record of the leaf fields the audit reads, named as in the source; a    *)
(* field the row lacks holds what the source's `|| default` makes of it    *)
(* ("" or 0), name fields are JavaScript values, isNull marks a null row.  *)
(* Numbers: conversions in tenths, searchImpressionShare in units of        *)
(* 0.00001 (null: no value), micros in micros, conversionsValue in whole   *)
(* currency units.                                                         *)
(***************************************************************************)
DatasetNames ==
    <<"campaigns", "campaign_budgets", "account_metrics", "campaign_metrics",
      "conversion_actions", "ad_groups", "keywords", "ads", "assets", "geo_targeting",
      "shopping_performance", "negative_lists", "user_lists">>

\* the row {}
EmptyRow ==
    [isNull |-> FALSE, name |-> JSUndefined, status |-> "", type |-> "", category |-> "",
     includeInConversionsMetric |-> FALSE, advertisingChannelType |-> "",
     biddingStrategyType |-> "", targetContentNetwork |-> FALSE,
     positiveGeoTargetType |-> "", adStrength |-> "", matchType |-> "",
     qualityScore |-> 0, memberCount |-> 0, amountMicros |-> 0, costMicros |-> 0,
     conversions |-> 0, clicks |-> 0, impressions |-> 0, searchImpressionShare |-> null,
     search_impression_share |-> null, cost_micros |-> 0, amount_micros |-> 0,
     conversionsValue |-> 0, conversions_value |-> 0, productTitle |-> "",
     product_title |-> "", productItemId |-> ""]

\* the row null
NullRow == [EmptyRow EXCEPT !.isNull = TRUE]

Dataset(rows) == [kind |-> "array", rows |-> rows]
NotArray(kind) == [kind |-> kind, rows |-> <<>>]

safeArray(d) == IF d.kind = "array" THEN d.rows ELSE <<>>

\* the indexes of rows whose row satisfies a test, given as the sequence of test results
Where(tests) == {i \in DOMAIN tests : tests[i]}

HasNull(rows) == \E i \in DOMAIN rows : rows[i].isNull

\* rows.some(test) raises: a null row is reached before a row passes the test
SomeRaises(rows, tests) ==
    \E i \in DOMAIN rows : rows[i].isNull /\ \A j \in 1..(i - 1) : ~tests[j]

\* (x || '').toLowerCase() raises: x is truthy and no string
LowerRaises(x) == Truthy(x) /\ x.t # "string"

\* x || '' for a string x
OrEmpty(x) == IF x.t = "string" THEN x.s ELSE ""

RECURSIVE GCD(_, _)
GCD(a, b) == IF b = 0 THEN a ELSE GCD(b, a % b)

\* Math.round(n / d * 10000) / 100, in hundredths, for n, d >= 0
pct(n, d) ==
    IF d = 0 THEN 0
    ELSE LET g == GCD(n, d) IN RoundDiv((n \div g) * 10000, d \div g)

\* Math.round(microsToDollars(micros)), for micros >= 0
RoundDollars(micros) == RoundDiv(micros, 1000000)

Uppercase == "ABCDEFGHIJKLMNOPQRSTUVWXYZ"
Lowercase == "abcdefghijklmnopqrstuvwxyz"

RECURSIVE LowerChar(_, _, _)
LowerChar(c, upper, lower) ==
    IF upper = "" THEN c
    ELSE IF Head(upper) = c THEN Head(lower)
    ELSE LowerChar(c, Tail(upper), Tail(lower))

RECURSIVE toLowerCase(_)
toLowerCase(str) ==
    IF str = "" THEN "" ELSE LowerChar(Head(str), Uppercase, Lowercase) \o toLowerCase(Tail(str))

RECURSIVE includes(_, _)
\* str.includes(sub)
includes(str, sub) ==
    /\ Len(str) >= Len(sub)
    /\ \/ SubSeq(str, 1, Len(sub)) = sub
       \/ str # "" /\ includes(Tail(str), sub)

RECURSIVE FirstPart(_)
\* n.split(/[-_|:]/)[0]
FirstPart(n) ==
    IF n = "" \/ Head(n) \in {"-", "_", "|", ":"} THEN "" ELSE Head(n) \o FirstPart(Tail(n))

RECURSIVE TrimStart(_)
TrimStart(str) == IF str # "" /\ Head(str) = " " THEN TrimStart(Tail(str)) ELSE str

RECURSIVE TrimEnd(_)
TrimEnd(str) ==
    IF str # "" /\ SubSeq(str, Len(str), Len(str)) = " "
    THEN TrimEnd(SubSeq(str, 1, Len(str) - 1)) ELSE str

trim(str) == TrimEnd(TrimStart(str))

RECURSIVE join(_, _)
\* parts.join(sep)
join(parts, sep) ==
    IF parts = <<>> THEN ""
    ELSE IF Len(parts) = 1 THEN parts[1]
    ELSE parts[1] \o sep \o join(Tail(parts), sep)

RECURSIVE KeysInOrder(_, _)
\* the distinct values of a sequence in order of first appearance: the keys of an
\* object filled by one pass over the rows
KeysInOrder(values, seen) ==
    IF values = <<>> THEN <<>>
    ELSE IF values[1] \in seen THEN KeysInOrder(Tail(values), seen)
    ELSE <<values[1]>> \o KeysInOrder(Tail(values), seen \cup {values[1]})

CountOf(values, v) == Cardinality({i \in DOMAIN values : values[i] = v})

\* Object.entries(counts).map(([k, v]) => `${v}${sep}${k}`).join(', ') for the counts of values
CountList(values, sep) ==
    LET keys == KeysInOrder(values, {})
    IN join([i \in DOMAIN keys |-> ToString(CountOf(values, keys[i])) \o sep \o keys[i]], ", ")

\* x.toFixed(1) for x in tenths, x.toFixed(2) for x in hundredths
Fixed1(tenths) == ToString(tenths \div 10) \o "." \o ToString(tenths % 10)
Fixed2(hundredths) ==
    ToString(hundredths \div 100) \o "." \o ToString((hundredths % 100) \div 10)
        \o ToString(hundredths % 10)

Check_blankNA(id, severity, result, finding) ==
    [id |-> id, severity |-> severity, result |-> result,
     finding |-> IF result = "N/A" THEN "" ELSE finding]

Check(id, severity, result, finding) ==
    [id |-> id, severity |-> severity, result |-> result, finding |-> finding]

(***************************************************************************)
(* Check Catalog (lines 307-837).  Each evaluator is an operator from the  *)
(* account data to its category, with the finding texts cut after their    *)
(* first words, and a predicate telling when the evaluator raises.         *)
(***************************************************************************)
\* the sum of one field over the rows
Total(values) == SumSeq(values)

\* r.conversionAction?.name || '' as text
NameText(x) ==
    IF x.t = "string" THEN x.s
    ELSE IF x.t = "number" /\ x.n # 0 THEN ToString(x.n)
    ELSE IF x.t = "boolean" /\ x.n = 1 THEN "true"
    ELSE ""

substring(str, n) == SubSeq(str, 1, IF Len(str) < n THEN Len(str) ELSE n)

DuplicateKeywords ==
    <<"purchase", "buy", "order", "phone", "call", "lead", "form", "submit", "contact">>

findDuplicatePatterns_single(names) ==
    LET count(kw) == Cardinality({i \in DOMAIN names : includes(names[i], kw)})
        hit == SelectSeq(DuplicateKeywords, LAMBDA kw : count(kw) >= 1)
    IN [i \in DOMAIN hit |-> ToString(count(hit[i])) \o "x \"" \o hit[i] \o "\" actions"]

findDuplicatePatterns(names) ==
    LET count(kw) == Cardinality({i \in DOMAIN names : includes(names[i], kw)})
        hit == SelectSeq(DuplicateKeywords, LAMBDA kw : count(kw) > 1)
    IN [i \in DOMAIN hit |-> ToString(count(hit[i])) \o "x \"" \o hit[i] \o "\" actions"]

microCategories ==
    {"PAGE_VIEW", "ADD_TO_CART", "BEGIN_CHECKOUT", "GET_DIRECTIONS", "ENGAGEMENT",
     "SUBSCRIBE_PAID", "OTHER"}

checkConversionTrackingRaises(data) ==
    LET convActions == safeArray(data["conversion_actions"])
        acctMetrics == safeArray(data["account_metrics"])
    IN \/ HasNull(acctMetrics)
       \/ HasNull(convActions)
       \/ \E i \in DOMAIN convActions : LowerRaises(convActions[i].name)

checkConversionTracking(data) ==
    LET convActions == safeArray(data["conversion_actions"])
        acctMetrics == safeArray(data["account_metrics"])
        totalConv == Total([i \in DOMAIN acctMetrics |-> acctMetrics[i].conversions])
        convCount == Len(convActions)
        hasEnhanced == \E i \in DOMAIN convActions :
                           convActions[i].type \in {"UPLOAD_CLICKS", "UPLOAD_CALLS"}
        hasServerSide == \E i \in DOMAIN convActions :
                             convActions[i].type \in {"UPLOAD_CLICKS", "UPLOAD_CALLS",
                                                      "STORE_SALES_DIRECT_UPLOAD"}
        categoryMix == [i \in DOMAIN convActions |->
                           IF convActions[i].category = "" THEN "UNKNOWN"
                           ELSE convActions[i].category]
        primaryActions == SelectSeq(convActions, LAMBDA r : r.includeInConversionsMetric)
        microAsPrimary == SelectSeq(primaryActions, LAMBDA r : r.category \in microCategories)
        actionNames == [i \in DOMAIN convActions |-> toLowerCase(OrEmpty(convActions[i].name))]
        duplicatePatterns == findDuplicatePatterns(actionNames)
        hasGA4 == \E i \in DOMAIN convActions :
                      \/ convActions[i].type = "GOOGLE_ANALYTICS_4"
                      \/ includes(actionNames[i], "ga4")
        activeActions == SelectSeq(convActions, LAMBDA r : r.status = "ENABLED")
        rounded == ToString(RoundDiv(totalConv, 10))
    IN [name |-> "Conversion Tracking", weight |-> "25%", checks |-> <<
        Check("G42", "Critical", IF convCount > 0 THEN "PASS" ELSE "FAIL",
              IF convCount > 0
              THEN ToString(convCount) \o " conversion actions configured."
              ELSE "CRITICAL: No conversion actions defined."),
        Check("G43", "Critical",
              IF hasEnhanced THEN "PASS" ELSE IF totalConv < 300 THEN "FAIL" ELSE "WARNING",
              IF hasEnhanced THEN "Enhanced conversions or offline import detected"
              ELSE "Not enabled - with only " \o rounded \o " conversions/month"),
        Check("G44", "High", IF hasServerSide THEN "PASS" ELSE "FAIL",
              IF hasServerSide THEN "Server-side or offline conversion import active"
              ELSE "No server-side tracking detected."),
        Check("G45", "Critical", "N/A", "EU targeting unclear from available data."),
        Check("G46", "Medium", IF convCount > 0 THEN "WARNING" ELSE "N/A",
              IF convCount > 0
              THEN ToString(Len(KeysInOrder(categoryMix, {}))) \o " conversion categories detected ("
                       \o CountList(categoryMix, "x ") \o ")."
              ELSE "No conversions to assess window settings."),
        Check("G47", "High",
              IF Len(microAsPrimary) = 0 THEN "PASS"
              ELSE IF Len(microAsPrimary) <= 2 THEN "WARNING" ELSE "FAIL",
              IF Len(microAsPrimary) = 0 THEN "Good separation"
              ELSE ToString(Len(microAsPrimary)) \o " micro/irrelevant actions set as Primary ("
                       \o substring(join([i \in DOMAIN microAsPrimary |->
                                             NameText(microAsPrimary[i].name)], ", "), 100)
                       \o ")."),
        Check("G48", "Medium", "N/A", "Cannot verify attribution model via API."),
        Check("G49", "High", IF Len(primaryActions) > 0 THEN "WARNING" ELSE "N/A",
              IF Len(primaryActions) > 0
              THEN ToString(Len(primaryActions)) \o " primary actions configured."
              ELSE "No primary actions to assess."),
        Check("G-CT1", "Critical",
              IF Len(duplicatePatterns) = 0 THEN "PASS"
              ELSE IF Len(duplicatePatterns) <= 1 THEN "WARNING" ELSE "FAIL",
              IF Len(duplicatePatterns) = 0 THEN "No obvious duplicate conversion actions."
              ELSE "Potential duplicates found: " \o join(duplicatePatterns, "; ") \o "."),
        Check("G-CT2", "High", IF hasGA4 THEN "PASS" ELSE "WARNING",
              IF hasGA4 THEN "GA4 conversion actions detected and linked."
              ELSE "No GA4 conversion actions found."),
        Check("G-CT3", "Critical",
              IF Len(activeActions) > 0 /\ totalConv > 0 THEN "PASS"
              ELSE IF Len(activeActions) > 0 THEN "WARNING" ELSE "FAIL",
              IF Len(activeActions) > 0 /\ totalConv > 0
              THEN ToString(Len(activeActions)) \o " active actions recording " \o rounded
                       \o " conversions in 30d."
              ELSE IF Len(activeActions) > 0
              THEN ToString(Len(activeActions)) \o " active actions but only " \o rounded
                       \o " conversions in 30d"
              ELSE "No active conversion actions.")
        >>]

\* a number of hundredths as JavaScript prints the number
HundredthsText(h) ==
    ToString(h \div 100) \o
        (IF h % 100 = 0 THEN ""
         ELSE IF h % 10 = 0 THEN "." \o ToString((h % 100) \div 10)
         ELSE "." \o ToString((h % 100) \div 10) \o ToString(h % 10))

\* the tests of campaigns.some(...) for an ENABLED campaign of one of the channel types
ActiveOfType(campaigns, types) ==
    [i \in DOMAIN campaigns |->
        campaigns[i].advertisingChannelType \in types /\ campaigns[i].status = "ENABLED"]

OfType(campaigns, types) ==
    [i \in DOMAIN campaigns |-> campaigns[i].advertisingChannelType \in types]

hasActiveSearch_anyStatus(campaigns) == Where(OfType(campaigns, {"SEARCH"})) # {}

hasActiveSearch(campaigns) == Where(ActiveOfType(campaigns, {"SEARCH"})) # {}
hasActiveShopping(campaigns) == Where(ActiveOfType(campaigns, {"SHOPPING", "PERFORMANCE_MAX"})) # {}
hasPMaxEnabled(campaigns) == Where(ActiveOfType(campaigns, {"PERFORMANCE_MAX"})) # {}
hasPMaxAny(campaigns) == Where(OfType(campaigns, {"PERFORMANCE_MAX"})) # {}

checkWastedSpendRaises(data) ==
    LET campaigns == safeArray(data["campaigns"])
        negLists == safeArray(data["negative_lists"])
        products == safeArray(data["shopping_performance"])
    IN \/ SomeRaises(campaigns, ActiveOfType(campaigns, {"SEARCH"}))
       \/ SomeRaises(campaigns, ActiveOfType(campaigns, {"SHOPPING", "PERFORMANCE_MAX"}))
       \/ HasNull(negLists)
       \/ HasNull(products)

checkWastedSpend(data) ==
    LET campaigns == safeArray(data["campaigns"])
        negLists == safeArray(data["negative_lists"])
        products == safeArray(data["shopping_performance"])
        activeSearch == hasActiveSearch(campaigns)
        activeShopping == hasActiveShopping(campaigns)
        listCount == Len(negLists)
        totalNegKw == Total([i \in DOMAIN negLists |-> negLists[i].memberCount])
        zeroConvProducts == SelectSeq(products, LAMBDA r : r.conversions = 0)
        zeroConvSpend == Total([i \in DOMAIN zeroConvProducts |-> zeroConvProducts[i].costMicros])
        totalSpend == Total([i \in DOMAIN products |-> products[i].costMicros])
        wastePct == pct(zeroConvSpend, totalSpend)
        searchOnly(id, severity, finding) ==
            Check(id, severity, IF activeSearch THEN "WARNING" ELSE "N/A",
                  IF activeSearch THEN finding ELSE "No active search campaigns.")
    IN [name |-> "Wasted Spend / Negatives", weight |-> "20%", checks |-> <<
        Check("G13", "Critical",
              IF activeSearch THEN "WARNING" ELSE IF activeShopping THEN "WARNING" ELSE "N/A",
              IF activeSearch THEN "Active search campaigns detected"
              ELSE IF activeShopping THEN "Shopping/PMax active"
              ELSE "No active search/shopping campaigns."),
        Check("G14", "Critical",
              IF listCount >= 3 THEN "PASS" ELSE IF listCount > 0 THEN "WARNING" ELSE "FAIL",
              IF listCount > 0
              THEN ToString(listCount) \o " list(s) with " \o ToString(totalNegKw)
                       \o " total keywords. "
                       \o (IF listCount >= 3 THEN "Good coverage with themed lists."
                           ELSE "Need at least 3 themed lists")
              ELSE "CRITICAL: No negative keyword lists exist."),
        Check("G15", "High", IF listCount > 0 THEN "WARNING" ELSE "FAIL",
              IF listCount > 0 THEN "Negative keyword lists exist"
              ELSE "No negative keyword lists exist to apply."),
        IF Len(products) > 0
        THEN Check("G16", "Critical",
                   IF wastePct < 2000 THEN "PASS" ELSE IF wastePct < 4000 THEN "WARNING" ELSE "FAIL",
                   "~" \o HundredthsText(wastePct) \o "% of top product spend ($"
                       \o ToString(RoundDollars(zeroConvSpend))
                       \o ") goes to zero-conversion products. "
                       \o (IF wastePct > 3000 THEN "This is a significant budget leak"
                           ELSE "Monitor these products weekly"))
        ELSE Check("G16", "Critical", IF activeSearch THEN "WARNING" ELSE "N/A",
                   IF activeSearch THEN "Search active - review the Search Terms report"
                   ELSE "No search/shopping data to assess."),
        searchOnly("G17", "Critical", "Verify broad match keywords are paired with Smart Bidding"),
        Check("G18", "High", "N/A", "Requires search term report analysis."),
        searchOnly("G19", "Medium", "Google only shows ~30-40% of actual search terms."),
        searchOnly("G-WS1", "High", "Review keywords that have spent more than 2x your target CPA")
        >>]

\* sis ? Math.round(Number(sis) * 100) : null, for the first account-metric row
sisValue(acctMetrics) ==
    LET sis == IF acctMetrics = <<>> \/ acctMetrics[1].isNull THEN null
               ELSE acctMetrics[1].searchImpressionShare
    IN IF sis # null /\ sis # 0 THEN RoundDiv(sis, 1000) ELSE null

\* what `sisValue &&` tests
SisKnown(v) == v # null /\ v # 0

checkAccountStructureRaises(data) ==
    LET campaigns == safeArray(data["campaigns"])
    IN \/ HasNull(campaigns)
       \/ \E i \in DOMAIN campaigns : LowerRaises(campaigns[i].name)
       \/ HasNull(safeArray(data["campaign_budgets"]))
       \/ HasNull(safeArray(data["account_metrics"]))
       \/ HasNull(safeArray(data["geo_targeting"]))

checkAccountStructure(data) ==
    LET campaigns == safeArray(data["campaigns"])
        adGroups == safeArray(data["ad_groups"])
        acctMetrics == safeArray(data["account_metrics"])
        campaignBudgets == safeArray(data["campaign_budgets"])
        geoTargeting == safeArray(data["geo_targeting"])
        enabledCampaigns == SelectSeq(campaigns, LAMBDA r : r.status = "ENABLED")
        allCampaignNames == [i \in DOMAIN campaigns |-> OrEmpty(campaigns[i].name)]
        prefixes == SelectSeq([i \in DOMAIN campaigns |-> trim(FirstPart(allCampaignNames[i]))],
                              LAMBDA n : n # "")
        uniquePrefixes == KeysInOrder(prefixes, {})
        typeCount == [i \in DOMAIN campaigns |->
                         IF campaigns[i].advertisingChannelType = "" THEN "UNKNOWN"
                         ELSE campaigns[i].advertisingChannelType]
        totalCampaigns == Len(campaigns)
        hasBrand == \E i \in DOMAIN campaigns :
                        LET name == toLowerCase(allCampaignNames[i])
                        IN /\ includes(name, "brand")
                           /\ ~includes(name, "non-brand")
                           /\ ~includes(name, "non brand")
        hasPMax == hasPMaxAny(campaigns)
        pmaxEnabled == hasPMaxEnabled(campaigns)
        activeSearch == \E i \in DOMAIN enabledCampaigns :
                            enabledCampaigns[i].advertisingChannelType = "SEARCH"
        totalBudget == Total([i \in DOMAIN campaignBudgets |-> campaignBudgets[i].amountMicros])
        totalSpend == Total([i \in DOMAIN acctMetrics |-> acctMetrics[i].costMicros])
        sisV == sisValue(acctMetrics)
        \* avgDailySpend / totalBudget against 0.85
        under == 2 * totalSpend < 51 * totalBudget
        over == 2 * totalSpend > 51 * totalBudget
        hasPresenceOnly == \E i \in DOMAIN geoTargeting :
                               geoTargeting[i].positiveGeoTargetType = "PRESENCE"
        hasPresenceOrInterest == \E i \in DOMAIN geoTargeting :
                                     geoTargeting[i].positiveGeoTargetType
                                         \in {"PRESENCE_OR_INTEREST", "SEARCH_INTEREST"}
        displayOn == SelectSeq(enabledCampaigns, LAMBDA r :
                         r.advertisingChannelType = "SEARCH" /\ r.targetContentNetwork)
    IN [name |-> "Account Structure", weight |-> "15%", checks |-> <<
        Check("G01", "Medium",
              IF Len(uniquePrefixes) <= 3 THEN "PASS"
              ELSE IF Len(uniquePrefixes) <= 5 THEN "WARNING" ELSE "FAIL",
              ToString(Len(uniquePrefixes)) \o " naming prefix(es) across "
                  \o ToString(Len(campaigns)) \o " campaigns. "
                  \o (IF Len(uniquePrefixes) > 3 THEN "Inconsistent naming"
                      ELSE "Consistent naming convention in place")),
        Check("G02", "Medium", IF Len(adGroups) < 50 THEN "PASS" ELSE "WARNING",
              ToString(Len(adGroups)) \o " total ad groups. "
                  \o (IF Len(adGroups) > 100 THEN "High ad group count"
                      ELSE "Manageable ad group count.")),
        Check("G03", "High", IF Len(adGroups) > 0 THEN "WARNING" ELSE "N/A",
              IF Len(adGroups) > 0 THEN "Verify each ad group contains tightly themed keywords"
              ELSE "No ad groups to assess."),
        Check("G04", "High",
              IF totalCampaigns <= 10 THEN "PASS"
              ELSE IF totalCampaigns <= 20 THEN "WARNING" ELSE "FAIL",
              ToString(totalCampaigns) \o " campaigns: " \o CountList(typeCount, " ") \o ". "
                  \o (IF totalCampaigns > 20 THEN "Excessive campaign fragmentation"
                      ELSE IF totalCampaigns > 10 THEN "Consider consolidating"
                      ELSE "Healthy campaign count")),
        Check("G05", "Critical", IF hasBrand THEN "PASS" ELSE "FAIL",
              IF hasBrand THEN "Brand campaign exists"
              ELSE "CRITICAL: No brand campaign exists."),
        Check("G06", "Medium",
              IF pmaxEnabled THEN "PASS" ELSE IF hasPMax THEN "WARNING" ELSE "FAIL",
              IF pmaxEnabled THEN "PMax campaign active"
              ELSE IF hasPMax THEN "PMax campaigns exist but all paused."
              ELSE "No PMax campaigns."),
        Check("G07", "High", IF activeSearch /\ pmaxEnabled THEN "WARNING" ELSE "N/A",
              IF activeSearch /\ pmaxEnabled THEN "Both Search and PMax active"
              ELSE "No concurrent Search + PMax running."),
        Check("G08", "High",
              IF Len(enabledCampaigns) <= 1 /\ SisKnown(sisV) /\ sisV < 50 THEN "FAIL"
              ELSE IF Len(enabledCampaigns) > 0 THEN "WARNING" ELSE "N/A",
              ToString(Len(enabledCampaigns)) \o " active campaign(s), $"
                  \o ToString(RoundDollars(totalBudget)) \o "/day budget"
                  \o (IF SisKnown(sisV)
                      THEN ", Search Impression Share " \o ToString(sisV) \o "%" ELSE "")
                  \o ". "
                  \o (IF SisKnown(sisV) /\ sisV < 50
                      THEN "Capturing only " \o ToString(sisV)
                               \o "% of available impressions means " \o ToString(100 - sisV)
                               \o "% of potential customers never see your ads."
                      ELSE "Review budget allocation")),
        Check("G09", "Medium",
              IF totalBudget > 0 /\ totalSpend > 0
              THEN (IF over THEN "PASS" ELSE "WARNING") ELSE "N/A",
              IF totalBudget > 0
              THEN "$" \o ToString(RoundDollars(totalBudget)) \o " daily budget, ~$"
                       \o ToString(RoundDiv(totalSpend, 30000000)) \o " actual daily spend. "
                       \o (IF under THEN "Under-delivery indicates targeting is too narrow"
                           ELSE "Budget utilization is healthy.")
              ELSE "No budget data available."),
        Check("G10", "Low", "N/A", "Ad schedule review requires campaign-level schedule data."),
        Check("G11", "High",
              IF hasPresenceOrInterest THEN "FAIL"
              ELSE IF hasPresenceOnly THEN "PASS" ELSE "WARNING",
              IF hasPresenceOrInterest THEN "CRITICAL: Using \"Presence or Interest\" geo targeting"
              ELSE IF hasPresenceOnly THEN "Correctly using \"Presence\" targeting"
              ELSE "Geo targeting type could not be detected."),
        Check("G12", "High",
              IF Len(displayOn) > 0 THEN "FAIL"
              ELSE IF Len(enabledCampaigns) > 0 THEN "PASS" ELSE "N/A",
              IF Len(displayOn) > 0
              THEN ToString(Len(displayOn)) \o " Search campaign(s) have Display Network enabled."
              ELSE "Network settings properly configured")
        >>]

checkKeywordsQSRaises(data) ==
    LET keywords == safeArray(data["keywords"])
        campaigns == safeArray(data["campaigns"])
    IN \/ SomeRaises(campaigns, ActiveOfType(campaigns, {"SEARCH"}))
       \/ hasActiveSearch(campaigns) /\ HasNull(keywords)

checkKeywordsQS(data) ==
    LET keywords == safeArray(data["keywords"])
        campaigns == safeArray(data["campaigns"])
        qsScores == SelectSeq([i \in DOMAIN keywords |-> keywords[i].qualityScore],
                              LAMBDA q : q > 0)
        n == Len(qsScores)
        sum == SumSeq(qsScores)
        \* avgQS in tenths, as toFixed(1) prints it
        avgQS == IF n > 0 THEN RoundDiv(10 * sum, n) ELSE 0
        lowQS == Len(SelectSeq(qsScores, LAMBDA q : q < 5))
        highQS == Len(SelectSeq(qsScores, LAMBDA q : q >= 7))
        matchTypes == [i \in DOMAIN keywords |->
                          IF keywords[i].matchType = "" THEN "UNKNOWN" ELSE keywords[i].matchType]
    IN IF ~hasActiveSearch(campaigns) \/ Len(keywords) = 0
       THEN [name |-> "Keywords & Quality Score", weight |-> "15%", checks |-> <<
                Check("G20-G25", "High", "N/A",
                      IF Len(keywords) > 0
                      THEN ToString(Len(keywords))
                               \o " keywords exist but search campaigns are paused"
                      ELSE "No active search campaigns - Quality Score is not tracked."),
                Check("G-KW1", "Medium", "N/A",
                      "No active search campaigns to assess keyword performance."),
                Check("G-KW2", "High", "N/A", "Cannot assess without active search campaigns.")
                >>]
       ELSE [name |-> "Keywords & Quality Score", weight |-> "15%", checks |-> <<
                Check("G20-G25", "High",
                      IF sum >= 7 * n /\ n > 0 THEN "PASS"
                      ELSE IF sum >= 5 * n /\ n > 0 THEN "WARNING" ELSE "FAIL",
                      IF n > 0
                      THEN "Average QS: " \o Fixed1(avgQS) \o "/10 across " \o ToString(n)
                               \o " scored keywords (" \o ToString(highQS) \o " scoring 7+, "
                               \o ToString(lowQS) \o " below 5). "
                               \o (IF sum < 5 * n THEN "Low QS means you pay significantly more"
                                   ELSE IF sum < 7 * n THEN "Room for improvement"
                                   ELSE "Strong QS")
                      ELSE "No Quality Score data available."),
                Check("G-KW1", "Medium", "WARNING",
                      ToString(Len(keywords)) \o " keywords configured: "
                          \o CountList(matchTypes, " ") \o "."),
                Check("G-KW2", "High", IF sum >= 6 * n /\ n > 0 THEN "PASS" ELSE "WARNING",
                      IF n > 0
                      THEN "Average QS of " \o Fixed1(avgQS) \o " indicates "
                               \o (IF sum >= 6 * n THEN "good" ELSE "poor")
                               \o " keyword-to-ad relevance."
                      ELSE "Cannot assess relevance without QS data.")
                >>]

checkAdsAssetsRaises(data) ==
    LET campaigns == safeArray(data["campaigns"])
    IN \/ SomeRaises(campaigns, ActiveOfType(campaigns, {"SEARCH"}))
       \/ SomeRaises(campaigns, ActiveOfType(campaigns, {"PERFORMANCE_MAX"}))
       \/ SomeRaises(campaigns, OfType(campaigns, {"PERFORMANCE_MAX"}))
       \/ HasNull(safeArray(data["ads"]))
       \/ HasNull(safeArray(data["account_metrics"]))

PMaxDetailIds == <<"G-PM1", "G-PM2", "G-PM3", "G-PM4", "G-PM5">>

PMaxDetailFindings ==
    <<"PMax active - audience signals guide Google's AI",
      "Check asset group Ad Strength in the PMax campaign.",
      "PMax often captures branded search queries",
      "Add search themes to guide PMax toward relevant queries.",
      "Request account-level negative keywords for PMax">>

checkAdsAssets(data) ==
    LET ads == safeArray(data["ads"])
        campaigns == safeArray(data["campaigns"])
        acctMetrics == safeArray(data["account_metrics"])
        activeSearch == hasActiveSearch(campaigns)
        pmaxEnabled == hasPMaxEnabled(campaigns)
        rsaAds == SelectSeq(ads, LAMBDA r : r.type = "RESPONSIVE_SEARCH_AD")
        rsaWithStrength == SelectSeq(rsaAds, LAMBDA r : r.adStrength \in {"GOOD", "EXCELLENT"})
        totalAds == Len(ads)
        totalClicks == Total([i \in DOMAIN acctMetrics |-> acctMetrics[i].clicks])
        totalImpressions == Total([i \in DOMAIN acctMetrics |-> acctMetrics[i].impressions])
        ctrPositive == totalImpressions > 0 /\ totalClicks > 0
        \* ctr in hundredths of a percent, as toFixed(2) prints it
        ctr == IF totalImpressions > 0 THEN RoundDiv(totalClicks * 10000, totalImpressions) ELSE 0
    IN [name |-> "Ads & Assets", weight |-> "15%", checks |-> <<
        IF activeSearch
        THEN Check("G26-G30", "High",
                   IF Len(rsaAds) > 0
                   THEN (IF 2 * Len(rsaWithStrength) >= Len(rsaAds) THEN "PASS" ELSE "WARNING")
                   ELSE "FAIL",
                   ToString(Len(rsaAds)) \o " Responsive Search Ads found, "
                       \o ToString(Len(rsaWithStrength)) \o " with Good/Excellent Ad Strength. "
                       \o (IF Len(rsaAds) = 0 THEN "Every active ad group needs at least 1 RSA"
                           ELSE IF 2 * Len(rsaWithStrength) < Len(rsaAds)
                           THEN "Over half of RSAs have Poor/Average Ad Strength."
                           ELSE "Good Ad Strength across RSAs"))
        ELSE Check("G26-G30", "High", "N/A", "No active Search campaigns - RSA checks not applicable."),
        Check("G31-G34", "Critical", IF pmaxEnabled THEN "WARNING" ELSE "N/A",
              IF pmaxEnabled THEN "PMax active - verify each asset group"
              ELSE IF hasPMaxAny(campaigns) THEN "PMax campaigns exist but all paused."
              ELSE "No PMax campaigns configured."),
        Check("G35", "High", IF activeSearch /\ Len(rsaAds) > 0 THEN "WARNING" ELSE "N/A",
              IF activeSearch THEN "Verify ad headlines include primary keywords."
              ELSE "No search ads to assess."),
        Check("G-AD1", "Medium", IF totalAds > 3 THEN "WARNING" ELSE "FAIL",
              IF totalAds > 0 THEN ToString(totalAds) \o " total ads across all campaigns."
              ELSE "No ads found - campaigns cannot run without ad creative."),
        Check("G-AD2", "High",
              IF ctrPositive
              THEN (IF totalClicks * 100 >= 2 * totalImpressions THEN "PASS" ELSE "WARNING")
              ELSE "N/A",
              IF ctrPositive
              THEN "Account CTR is " \o Fixed2(ctr) \o "%. "
                       \o (IF totalClicks * 100 >= 6 * totalImpressions THEN "Excellent"
                           ELSE IF totalClicks * 100 >= 2 * totalImpressions
                           THEN "Acceptable but room for improvement."
                           ELSE "Below the 2% minimum threshold.")
              ELSE "No impression data available to calculate CTR.")
        >> \o [i \in DOMAIN PMaxDetailIds |->
                  Check(PMaxDetailIds[i], "High", IF pmaxEnabled THEN "WARNING" ELSE "N/A",
                        IF pmaxEnabled THEN PMaxDetailFindings[i] ELSE "No active PMax.")]]

checkSettingsTargetingRaises(data) ==
    \/ HasNull(safeArray(data["campaigns"]))
    \/ HasNull(safeArray(data["account_metrics"]))
    \/ HasNull(safeArray(data["assets"]))
    \/ HasNull(safeArray(data["user_lists"]))

\* the table extDetails: id, name, type, severity, min
extDetails ==
    <<[id |-> "G50", name |-> "Sitelink extensions", type |-> "SITELINK", severity |-> "High", min |-> 4],
      [id |-> "G51", name |-> "Callout extensions", type |-> "CALLOUT", severity |-> "Medium", min |-> 4],
      [id |-> "G52", name |-> "Structured snippets", type |-> "STRUCTURED_SNIPPET", severity |-> "Medium", min |-> 1],
      [id |-> "G53", name |-> "Image extensions", type |-> "IMAGE", severity |-> "Medium", min |-> 1],
      [id |-> "G54", name |-> "Call extensions", type |-> "CALL", severity |-> "Medium", min |-> 1]>>

SmartBiddingTypes ==
    {"TARGET_CPA", "TARGET_ROAS", "MAXIMIZE_CONVERSIONS", "MAXIMIZE_CONVERSION_VALUE"}

checkSettingsTargeting(data) ==
    LET campaigns == safeArray(data["campaigns"])
        assets == safeArray(data["assets"])
        userLists == safeArray(data["user_lists"])
        acctMetrics == safeArray(data["account_metrics"])
        enabledCampaigns == SelectSeq(campaigns, LAMBDA r : r.status = "ENABLED")
        biddingTypes == [i \in DOMAIN enabledCampaigns |-> enabledCampaigns[i].biddingStrategyType]
        hasManualCpc == \E i \in DOMAIN biddingTypes : biddingTypes[i] \in {"MANUAL_CPC", "MANUAL_CPM"}
        hasSmartBidding == \E i \in DOMAIN biddingTypes : biddingTypes[i] \in SmartBiddingTypes
        totalConv == Total([i \in DOMAIN acctMetrics |-> acctMetrics[i].conversions])
        rounded == ToString(RoundDiv(totalConv, 10))
        sisV == sisValue(acctMetrics)
        assetTypes == [i \in DOMAIN assets |-> assets[i].type]
        extCheck(ext) ==
            LET count == CountOf(assetTypes, ext.type)
            IN Check(ext.id, ext.severity,
                     IF count >= ext.min THEN "PASS" ELSE IF count > 0 THEN "WARNING" ELSE "FAIL",
                     IF count >= ext.min
                     THEN ToString(count) \o " " \o toLowerCase(ext.type) \o " asset(s) configured."
                     ELSE IF count > 0
                     THEN "Only " \o ToString(count) \o " " \o toLowerCase(ext.type)
                              \o " asset(s) - need at least " \o ToString(ext.min) \o "."
                     ELSE "No " \o toLowerCase(ext.name) \o " configured.")
        remarketingLists == SelectSeq(userLists, LAMBDA r :
                                r.type \in {"REMARKETING", "RULE_BASED", "SIMILAR"})
        customerMatch == SelectSeq(userLists, LAMBDA r : r.type = "CRM_BASED")
    IN [name |-> "Settings & Targeting + Bidding", weight |-> "10%", checks |-> <<
        Check("G36", "High",
              IF hasSmartBidding THEN "PASS"
              ELSE IF hasManualCpc /\ totalConv < 150 THEN "WARNING" ELSE "FAIL",
              IF hasSmartBidding
              THEN "Smart bidding active ("
                       \o join(SelectSeq(biddingTypes, LAMBDA b : b # "" /\ b # "MANUAL_CPC"), ", ")
                       \o ")."
              ELSE IF hasManualCpc
              THEN "Using Manual CPC with " \o rounded \o " conversions/month. "
                       \o (IF totalConv < 150 THEN "Smart Bidding needs 15+ conversions/month"
                           ELSE "With " \o rounded \o " conversions/month, you have enough data")
              ELSE "No bidding strategy detected on active campaigns."),
        Check("G39", "High",
              IF SisKnown(sisV)
              THEN (IF sisV >= 70 THEN "PASS" ELSE IF sisV >= 40 THEN "WARNING" ELSE "FAIL")
              ELSE "N/A",
              IF SisKnown(sisV)
              THEN "Search Impression Share is " \o ToString(sisV) \o "%. "
                       \o (IF sisV < 50
                           THEN "You're only showing for " \o ToString(sisV)
                                    \o "% of eligible searches - missing " \o ToString(100 - sisV)
                                    \o "% of potential customers."
                           ELSE IF sisV < 70 THEN "Moderate coverage"
                           ELSE "Strong impression share")
              ELSE "Search Impression Share data not available."),
        Check("G40", "Medium",
              IF hasManualCpc THEN (IF totalConv < 150 THEN "WARNING" ELSE "FAIL") ELSE "PASS",
              IF hasManualCpc
              THEN rounded \o " conversions/month with Manual CPC. "
                       \o (IF totalConv < 150 THEN "Below the 15-conversion threshold"
                           ELSE "Sufficient conversion volume for Smart Bidding.")
              ELSE "Using automated bidding")
        >> \o [i \in DOMAIN extDetails |-> extCheck(extDetails[i])] \o <<
        Check("G56", "High", IF Len(remarketingLists) > 0 THEN "PASS" ELSE "FAIL",
              IF Len(remarketingLists) > 0
              THEN ToString(Len(remarketingLists)) \o " remarketing/audience list(s) configured."
              ELSE "No remarketing or in-market audiences applied."),
        Check("G57", "High", IF Len(customerMatch) > 0 THEN "PASS" ELSE "FAIL",
              IF Len(customerMatch) > 0
              THEN ToString(Len(customerMatch)) \o " Customer Match list(s) uploaded."
              ELSE "No Customer Match lists uploaded.")
        >>]

(***************************************************************************)
(* Industry detection, snapshot, product analysis and runAudit             *)
(* (lines 261-303, 1011-1154)                                              *)
(***************************************************************************)
\* An account is [isNull, name, customerId]: name is a JavaScript value, customerId
\* the text of the id.
Account(name) == [isNull |-> FALSE, name |-> name, customerId |-> "1234567890"]
NullAccount == [isNull |-> TRUE, name |-> JSUndefined, customerId |-> ""]

EcommerceCategory(convActions) ==
    [i \in DOMAIN convActions |-> convActions[i].category \in {"PURCHASE", "ADD_TO_CART"}]

detectIndustryRaises(accountName, data) ==
    LET campaigns == safeArray(data["campaigns"])
        convActions == safeArray(data["conversion_actions"])
        products == safeArray(data["shopping_performance"])
    IN \/ accountName.t # "string"
       \/ /\ Len(products) = 0
          /\ \/ SomeRaises(convActions, EcommerceCategory(convActions))
             \/ /\ Where(EcommerceCategory(convActions)) = {}
                /\ SomeRaises(campaigns, OfType(campaigns, {"SHOPPING", "PERFORMANCE_MAX"}))

detectIndustry_nameFirst(accountName, data) ==
    LET name == toLowerCase(accountName.s)
        campaigns == safeArray(data["campaigns"])
        convActions == safeArray(data["conversion_actions"])
        products == safeArray(data["shopping_performance"])
        has(words) == \E w \in words : includes(name, w)
    IN IF has({"law", "legal", "attorney"}) THEN "Legal"
       ELSE IF has({"real estate", "realty", "roofing", "contracting", "construction"})
       THEN "Local Services"
       ELSE IF has({"spa", "skin", "dental", "health", "diet", "dna"}) THEN "Healthcare"
       ELSE IF has({"tour", "travel", "station"}) THEN "Travel"
       ELSE IF has({"engineering"}) THEN "Local Services"
       ELSE IF has({"tree"}) THEN "Local Services"
       ELSE IF Len(products) > 0 THEN "E-commerce"
       ELSE IF Where(EcommerceCategory(convActions)) # {} THEN "E-commerce"
       ELSE IF Where(OfType(campaigns, {"SHOPPING", "PERFORMANCE_MAX"})) # {} THEN "E-commerce"
       ELSE "General"

detectIndustry(accountName, data) ==
    LET name == toLowerCase(accountName.s)
        campaigns == safeArray(data["campaigns"])
        convActions == safeArray(data["conversion_actions"])
        products == safeArray(data["shopping_performance"])
        has(words) == \E w \in words : includes(name, w)
    IN IF Len(products) > 0 THEN "E-commerce"
       ELSE IF Where(EcommerceCategory(convActions)) # {} THEN "E-commerce"
       ELSE IF Where(OfType(campaigns, {"SHOPPING", "PERFORMANCE_MAX"})) # {} THEN "E-commerce"
       ELSE IF has({"law", "legal", "attorney"}) THEN "Legal"
       ELSE IF has({"real estate", "realty", "roofing", "contracting", "construction"})
       THEN "Local Services"
       ELSE IF has({"spa", "skin", "dental", "health", "diet", "dna"}) THEN "Healthcare"
       ELSE IF has({"tour", "travel", "station"}) THEN "Travel"
       ELSE IF has({"engineering"}) THEN "Local Services"
       ELSE IF has({"tree"}) THEN "Local Services"
       ELSE "General"

\* buildSnapshot dereferences every row of four datasets
buildSnapshotRaises(data) ==
    \/ HasNull(safeArray(data["campaigns"]))
    \/ HasNull(safeArray(data["campaign_metrics"]))
    \/ HasNull(safeArray(data["account_metrics"]))
    \/ HasNull(safeArray(data["campaign_budgets"]))

\* a || b for two numbers
OrNum(a, b) == IF a # 0 THEN a ELSE b

\* a || b || c for three strings
OrText(a, b, c) == IF a # "" THEN a ELSE IF b # "" THEN b ELSE c

\* Math.round(n * scale / d) for n >= 0, scale > 0, d > 0, with the common factors
\* taken out before multiplying
RoundScaled(n, scale, d) ==
    LET g == GCD(n, d)
        h == GCD(scale, d \div g)
    IN RoundDiv((n \div g) * (scale \div h), (d \div g) \div h)

\* r.metrics?.costMicros || r.metrics?.cost_micros
Cost(r) == OrNum(r.costMicros, r.cost_micros)

\* r.metrics?.conversionsValue || r.metrics?.conversions_value
ConversionsValue(r) == OrNum(r.conversionsValue, r.conversions_value)

\* The snapshot of an account without data.  Units: spend30d, avgCpc, cpa and
\* avgDailySpend in cents, ctr and searchImpressionShare in hundredths of a
\* percent (searchImpressionShare null: unknown), roas in hundredths,
\* conversions30d in tenths, conversionValue30d and dailyBudget in whole units.
NoSnapshot ==
    [totalCampaigns |-> 0, enabledCampaigns |-> 0, activeCampaignsWithSpend |-> 0,
     totalAdGroups |-> 0, totalKeywords |-> 0, spend30d |-> 0, impressions30d |-> 0,
     clicks30d |-> 0, ctr |-> 0, avgCpc |-> 0, conversions30d |-> 0,
     conversionValue30d |-> 0, roas |-> 0, cpa |-> 0, searchImpressionShare |-> null,
     dailyBudget |-> 0, avgDailySpend |-> 0]

buildSnapshot_roasOfZeroSpend(data) ==
    LET campaigns == safeArray(data["campaigns"])
        campaignMetrics == safeArray(data["campaign_metrics"])
        campaignBudgets == safeArray(data["campaign_budgets"])
        acctMetrics == safeArray(data["account_metrics"])
        totalSpend == SumSeq([i \in DOMAIN acctMetrics |-> Cost(acctMetrics[i])])
        totalImpressions == SumSeq([i \in DOMAIN acctMetrics |-> acctMetrics[i].impressions])
        totalClicks == SumSeq([i \in DOMAIN acctMetrics |-> acctMetrics[i].clicks])
        totalConv == SumSeq([i \in DOMAIN acctMetrics |-> acctMetrics[i].conversions])
        totalConvValue ==
            SumSeq([i \in DOMAIN acctMetrics |-> ConversionsValue(acctMetrics[i])])
        sis == IF acctMetrics = <<>> THEN null
               ELSE IF acctMetrics[1].searchImpressionShare \notin {null, 0}
               THEN acctMetrics[1].searchImpressionShare
               ELSE acctMetrics[1].search_impression_share
        totalBudget ==
            SumSeq([i \in DOMAIN campaignBudgets |->
                       OrNum(campaignBudgets[i].amountMicros, campaignBudgets[i].amount_micros)])
    IN [totalCampaigns |-> Len(campaigns),
        enabledCampaigns |->
            Cardinality({i \in DOMAIN campaigns : campaigns[i].status = "ENABLED"}),
        activeCampaignsWithSpend |->
            Cardinality({i \in DOMAIN campaignMetrics : Cost(campaignMetrics[i]) > 0}),
        totalAdGroups |-> Len(safeArray(data["ad_groups"])),
        totalKeywords |-> Len(safeArray(data["keywords"])),
        spend30d |-> RoundDiv(totalSpend, 10000),
        impressions30d |-> totalImpressions,
        clicks30d |-> totalClicks,
        ctr |-> IF totalImpressions > 0 THEN RoundScaled(totalClicks, 10000, totalImpressions)
                ELSE 0,
        avgCpc |-> IF totalClicks > 0 THEN RoundScaled(totalSpend, 1, 10000 * totalClicks)
                   ELSE 0,
        conversions30d |-> totalConv,
        conversionValue30d |-> totalConvValue,
        roas |-> IF totalSpend > 0 THEN RoundScaled(totalConvValue, 100000000, totalSpend)
                 ELSE totalConvValue,
        cpa |-> IF totalConv > 0 THEN RoundScaled(totalSpend, 1, 1000 * totalConv) ELSE 0,
        searchImpressionShare |-> IF sis # null /\ sis # 0 THEN RoundDiv(sis, 10) ELSE null,
        dailyBudget |-> RoundDollars(totalBudget),
        avgDailySpend |-> RoundDiv(totalSpend, 300000)]

\* buildSnapshot(data) for rows that are not null
buildSnapshot(data) ==
    LET campaigns == safeArray(data["campaigns"])
        campaignMetrics == safeArray(data["campaign_metrics"])
        campaignBudgets == safeArray(data["campaign_budgets"])
        acctMetrics == safeArray(data["account_metrics"])
        totalSpend == SumSeq([i \in DOMAIN acctMetrics |-> Cost(acctMetrics[i])])
        totalImpressions == SumSeq([i \in DOMAIN acctMetrics |-> acctMetrics[i].impressions])
        totalClicks == SumSeq([i \in DOMAIN acctMetrics |-> acctMetrics[i].clicks])
        totalConv == SumSeq([i \in DOMAIN acctMetrics |-> acctMetrics[i].conversions])
        totalConvValue ==
            SumSeq([i \in DOMAIN acctMetrics |-> ConversionsValue(acctMetrics[i])])
        sis == IF acctMetrics = <<>> THEN null
               ELSE IF acctMetrics[1].searchImpressionShare \notin {null, 0}
               THEN acctMetrics[1].searchImpressionShare
               ELSE acctMetrics[1].search_impression_share
        totalBudget ==
            SumSeq([i \in DOMAIN campaignBudgets |->
                       OrNum(campaignBudgets[i].amountMicros, campaignBudgets[i].amount_micros)])
    IN [totalCampaigns |-> Len(campaigns),
        enabledCampaigns |->
            Cardinality({i \in DOMAIN campaigns : campaigns[i].status = "ENABLED"}),
        activeCampaignsWithSpend |->
            Cardinality({i \in DOMAIN campaignMetrics : Cost(campaignMetrics[i]) > 0}),
        totalAdGroups |-> Len(safeArray(data["ad_groups"])),
        totalKeywords |-> Len(safeArray(data["keywords"])),
        spend30d |-> RoundDiv(totalSpend, 10000),
        impressions30d |-> totalImpressions,
        clicks30d |-> totalClicks,
        ctr |-> IF totalImpressions > 0 THEN RoundScaled(totalClicks, 10000, totalImpressions)
                ELSE 0,
        avgCpc |-> IF totalClicks > 0 THEN RoundScaled(totalSpend, 1, 10000 * totalClicks)
                   ELSE 0,
        conversions30d |-> totalConv,
        conversionValue30d |-> totalConvValue,
        roas |-> IF totalSpend > 0 THEN RoundScaled(totalConvValue, 100000000, totalSpend)
                 ELSE 0,
        cpa |-> IF totalConv > 0 THEN RoundScaled(totalSpend, 1, 1000 * totalConv) ELSE 0,
        searchImpressionShare |-> IF sis # null /\ sis # 0 THEN RoundDiv(sis, 10) ELSE null,
        dailyBudget |-> RoundDollars(totalBudget),
        avgDailySpend |-> RoundDiv(totalSpend, 300000)]

\* id.startsWith(prefix)
startsWith(id, prefix) == Len(id) >= Len(prefix) /\ SubSeq(id, 1, Len(prefix)) = prefix

failedChecks_failOnly(categories) ==
    SelectSeq(AllChecks(categories), LAMBDA c : c.result = "FAIL")

\* the checks of all categories whose result is FAIL or WARNING, in order
failedChecks(categories) ==
    SelectSeq(AllChecks(categories), LAMBDA c : c.result = "FAIL" \/ c.result = "WARNING")

criticalFails_anyResult(categories) ==
    SelectSeq(failedChecks(categories), LAMBDA c : c.severity = "Critical")

criticalFails(categories) ==
    SelectSeq(failedChecks(categories),
              LAMBDA c : c.severity = "Critical" /\ c.result = "FAIL")

highFails(categories) == SelectSeq(failedChecks(categories), LAMBDA c : c.severity = "High")

\* checks.some(c => c.id === one of ids)
SomeId(checks, ids) == \E i \in DOMAIN checks : checks[i].id \in ids

\* the fixed texts of the recommendations, cut after their first words
Rec ==
    [conversionTracking |-> "Clean up conversion tracking",
     enhancedConversions |-> "Enable Enhanced Conversions for the primary conversion action.",
     brandCampaign |-> "Launch a brand Search campaign immediately",
     negativeLists |-> "Build 3+ themed negative keyword lists and apply to all campaigns",
     geoTargeting |-> "Fix geographic targeting in all campaigns",
     noCritical |-> "No critical failures found",
     smartBidding |-> "Test Smart Bidding via campaign experiments",
     audiences |-> "Build your audience infrastructure",
     pmax |-> "Launch a PMax campaign with proper setup",
     creative |-> "Refresh ad creative",
     budgetScaling |-> "Increase impression share on your highest-ROAS campaigns",
     demandGen |-> "Test Demand Gen campaigns for upper-funnel awareness",
     serverSide |-> "Implement server-side tracking"]

\* the texts that cite a value of the snapshot
RecImpressionShare(share) ==
    "Increase Search Impression Share from " \o HundredthsText(share) \o "% toward 50%+"
RecVolume(conversions30d) ==
    "With " \o ToString(RoundDiv(conversions30d, 10)) \o " conversions/month"

phase1(categories) ==
    LET critical == criticalFails(categories)
        triggered ==
            (IF \E i \in DOMAIN critical :
                    startsWith(critical[i].id, "G4") \/ startsWith(critical[i].id, "G-CT")
             THEN <<Rec.conversionTracking>> ELSE <<>>)
            \o (IF SomeId(critical, {"G43"}) THEN <<Rec.enhancedConversions>> ELSE <<>>)
            \o (IF SomeId(critical, {"G05"}) THEN <<Rec.brandCampaign>> ELSE <<>>)
            \o (IF SomeId(critical, {"G14"}) THEN <<Rec.negativeLists>> ELSE <<>>)
            \o (IF SomeId(critical, {"G11"}) THEN <<Rec.geoTargeting>> ELSE <<>>)
    IN IF Len(triggered) = 0 THEN <<Rec.noCritical>> ELSE triggered

phase2(categories) ==
    (IF SomeId(highFails(categories), {"G36"}) THEN <<Rec.smartBidding>> ELSE <<>>)
    \o (IF SomeId(highFails(categories), {"G56", "G57"}) THEN <<Rec.audiences>> ELSE <<>>)
    \o (IF SomeId(failedChecks(categories), {"G06"}) THEN <<Rec.pmax>> ELSE <<>>)
    \o <<Rec.creative>>

\* snapshot.searchImpressionShare && ... : null and 0 are falsy; 50 is 5000 hundredths
phase3(snapshot) ==
    (IF /\ snapshot.searchImpressionShare # null
        /\ snapshot.searchImpressionShare # 0
        /\ snapshot.searchImpressionShare < 5000
     THEN <<RecImpressionShare(snapshot.searchImpressionShare)>>
     ELSE <<Rec.budgetScaling>>)
    \o (IF snapshot.conversions30d > 150 THEN <<RecVolume(snapshot.conversions30d)>> ELSE <<>>)
    \o <<Rec.demandGen, Rec.serverSide>>

generateRecommendations(categories, industry, snapshot) ==
    <<[phase |-> "Phase 1: Fix the Foundation (Week 1)", items |-> phase1(categories)],
      [phase |-> "Phase 2: Optimize & Expand (Weeks 2-3)", items |-> phase2(categories)],
      [phase |-> "Phase 3: Scale (Month 2+)", items |-> phase3(snapshot)]>>

\* analyzeProducts dereferences every shopping row
analyzeProductsRaises(data) == HasNull(safeArray(data["shopping_performance"]))

\* a / b < c / d for a, c >= 0 and b, d > 0, compared without multiplying
RECURSIVE RatioLess(_, _, _, _)
RatioLess(a, b, c, d) ==
    IF a \div b # c \div d THEN a \div b < c \div d
    ELSE IF c % d = 0 THEN FALSE
    ELSE IF a % b = 0 THEN TRUE
    ELSE RatioLess(d, c % d, b, a % b)

\* Math.max(microsToDollars(cost), 0.01), in micros
FlooredCost(r) == IF Cost(r) > 10000 THEN Cost(r) ELSE 10000

\* roasA < roasB in the comparator of topPerforming: the conversion value is
\* passed through microsToDollars like the cost
RoasLess(a, b) ==
    RatioLess(ConversionsValue(a), FlooredCost(a), ConversionsValue(b), FlooredCost(b))

\* rows.sort((a, b) => spend(b) - spend(a)): descending, rows of equal spend keep
\* their order
RECURSIVE sortBySpend(_)
sortBySpend(rows) ==
    IF rows = <<>> THEN <<>>
    ELSE LET r == rows[Len(rows)]
             before == sortBySpend(SubSeq(rows, 1, Len(rows) - 1))
             keep == Cardinality({i \in DOMAIN before : Cost(before[i]) >= Cost(r)})
         IN SubSeq(before, 1, keep) \o <<r>> \o SubSeq(before, keep + 1, Len(before))

\* rows.sort((a, b) => roasB - roasA): descending, rows of equal ROAS keep their order
RECURSIVE sortByRoas(_)
sortByRoas(rows) ==
    IF rows = <<>> THEN <<>>
    ELSE LET r == rows[Len(rows)]
             before == sortByRoas(SubSeq(rows, 1, Len(rows) - 1))
             keep == Cardinality({i \in DOMAIN before : ~RoasLess(before[i], r)})
         IN SubSeq(before, 1, keep) \o <<r>> \o SubSeq(before, keep + 1, Len(before))

\* an entry of topWasted; spend in cents
WastedEntry(r) ==
    [product |-> OrText(r.productTitle, r.product_title,
                        OrText(r.productItemId, "Unknown", "Unknown")),
     spend |-> RoundDiv(Cost(r), 10000), conversions |-> 0, value |-> 0]

\* an entry of topPerforming; spend in cents, conversions and roas in tenths,
\* value in whole units
PerformingEntry(r) ==
    [product |-> OrText(r.productTitle, r.product_title, "Unknown"),
     spend |-> RoundDiv(Cost(r), 10000),
     conversions |-> r.conversions,
     value |-> RoundDiv(ConversionsValue(r), 1000000),
     roas |-> IF Cost(r) > 0 THEN RoundScaled(ConversionsValue(r), 10, Cost(r)) ELSE 0]

analyzeProducts_keepOrder(data) ==
    LET products == safeArray(data["shopping_performance"])
        wasted == SelectSeq(products, LAMBDA r : r.conversions = 0 /\ Cost(r) > 10000000)
        performing == sortByRoas(SelectSeq(products, LAMBDA r : r.conversions > 0))
        topWasted == Slice(wasted, 8)
        topPerforming == Slice(performing, 5)
    IN [topWasted |-> [i \in DOMAIN topWasted |-> WastedEntry(topWasted[i])],
        topPerforming |-> [i \in DOMAIN topPerforming |-> PerformingEntry(topPerforming[i])]]

\* analyzeProducts(data) for rows that are not null
analyzeProducts(data) ==
    LET products == safeArray(data["shopping_performance"])
        wasted == sortBySpend(SelectSeq(products,
                      LAMBDA r : r.conversions = 0 /\ Cost(r) > 10000000))
        performing == sortByRoas(SelectSeq(products, LAMBDA r : r.conversions > 0))
        topWasted == Slice(wasted, 8)
        topPerforming == Slice(performing, 5)
    IN [topWasted |-> [i \in DOMAIN topWasted |-> WastedEntry(topWasted[i])],
        topPerforming |-> [i \in DOMAIN topPerforming |-> PerformingEntry(topPerforming[i])]]

runAuditRaises(account, rawData) ==
    \/ account.isNull
    \/ detectIndustryRaises(account.name, rawData)
    \/ buildSnapshotRaises(rawData)
    \/ checkConversionTrackingRaises(rawData)
    \/ checkWastedSpendRaises(rawData)
    \/ checkAccountStructureRaises(rawData)
    \/ checkKeywordsQSRaises(rawData)
    \/ checkAdsAssetsRaises(rawData)
    \/ checkSettingsTargetingRaises(rawData)
    \/ analyzeProductsRaises(rawData)

NoReport ==
    [returned |-> FALSE, raised |-> FALSE, account |-> "", customerId |-> "", date |-> "",
     industry |-> "", healthScore |-> 0,
     grade |-> "", verdict |-> "", snapshot |-> NoSnapshot, categories |-> <<>>,
     quickWins |-> <<>>, recommendations |-> <<>>, topWastedProducts |-> <<>>,
     topPerformingProducts |-> <<>>]

runAudit_keepsIndustry(account, rawData, date) ==
    IF runAuditRaises(account, rawData) THEN [NoReport EXCEPT !.raised = TRUE]
    ELSE LET catResults == <<checkConversionTracking(rawData), checkWastedSpend(rawData),
                             checkAccountStructure(rawData), checkKeywordsQS(rawData),
                             checkAdsAssets(rawData), checkSettingsTargeting(rawData)>>
             categories == [i \in DOMAIN catResults |->
                               LET s == scoreCategory(catResults[i])
                               IN [name |-> catResults[i].name, weight |-> catResults[i].weight,
                                   checks |-> catResults[i].checks,
                                   score |-> s.score, grade |-> s.grade]]
             o == calculateOverallScore(categories)
             industry == IF history # <<>> /\ history[Len(history)].report.returned
                         THEN history[Len(history)].report.industry
                         ELSE detectIndustry(account.name, rawData)
             snapshot == buildSnapshot(rawData)
             productAnalysis == analyzeProducts(rawData)
         IN [returned |-> TRUE, raised |-> FALSE, account |-> account.name.s,
             customerId |-> account.customerId, date |-> date, industry |-> industry,
             healthScore |-> o.healthScore, grade |-> o.grade,
             verdict |-> gradeVerdict(o.grade), snapshot |-> snapshot,
             categories |-> categories,
             quickWins |-> identifyQuickWins(categories),
             recommendations |-> generateRecommendations(categories, industry, snapshot),
             topWastedProducts |-> productAnalysis.topWasted,
             topPerformingProducts |-> productAnalysis.topPerforming]

\* The report of runAudit; raised: runAudit threw instead of returning.  A product
\* list that the report lacks (the list is empty) is the empty list here.  Every
\* array and object of the report is built by the call (const checks = [],
\* const phase1 = [], filter before sort); rawData and the tables of lines 33-127 are
\* only read.
runAudit(account, rawData, date) ==
    IF runAuditRaises(account, rawData) THEN [NoReport EXCEPT !.raised = TRUE]
    ELSE LET catResults == <<checkConversionTracking(rawData), checkWastedSpend(rawData),
                             checkAccountStructure(rawData), checkKeywordsQS(rawData),
                             checkAdsAssets(rawData), checkSettingsTargeting(rawData)>>
             categories == [i \in DOMAIN catResults |->
                               LET s == scoreCategory(catResults[i])
                               IN [name |-> catResults[i].name, weight |-> catResults[i].weight,
                                   checks |-> catResults[i].checks,
                                   score |-> s.score, grade |-> s.grade]]
             o == calculateOverallScore(categories)
             industry == detectIndustry(account.name, rawData)
             snapshot == buildSnapshot(rawData)
             productAnalysis == analyzeProducts(rawData)
         IN [returned |-> TRUE, raised |-> FALSE, account |-> account.name.s,
             customerId |-> account.customerId, date |-> date, industry |-> industry,
             healthScore |-> o.healthScore, grade |-> o.grade,
             verdict |-> gradeVerdict(o.grade), snapshot |-> snapshot,
             categories |-> categories,
             quickWins |-> identifyQuickWins(categories),
             recommendations |-> generateRecommendations(categories, industry, snapshot),
             topWastedProducts |-> productAnalysis.topWasted,
             topPerformingProducts |-> productAnalysis.topPerforming]

\* the account data of an account without anything: thirteen empty arrays
EmptyData == [n \in {DatasetNames[i] : i \in DOMAIN DatasetNames} |-> Dataset(<<>>)]

DefaultAccount == Account(JSString("Acme Widgets"))

\* new Date().toISOString().split('T')[0] on the day of the run
Today == "2024-03-09"

(***************************************************************************)
(* Calls of single functions: what retval holds                            *)
(***************************************************************************)
NotCalled == [called |-> FALSE, raised |-> FALSE]
Raised == [called |-> TRUE, raised |-> TRUE]
Returned(v) == [called |-> TRUE, raised |-> FALSE, value |-> v]

\* the outcome of detectIndustry(accountName, data)
DetectIndustryOutcome(accountName, data) ==
    IF detectIndustryRaises(accountName, data) THEN Raised
    ELSE Returned(detectIndustry(accountName, data))

\* the check of a category with a given id
CheckById(cat, id) == cat.checks[CHOOSE i \in DOMAIN cat.checks : cat.checks[i].id = id]

\* what checkConversionTracking makes of the conversion-action names: the names
\* as it lowercases them, the patterns of findDuplicatePatterns and the check G-CT1
DuplicateCountingOutcome(data) ==
    IF checkConversionTrackingRaises(data) THEN Raised
    ELSE LET convActions == safeArray(data["conversion_actions"])
             actionNames == [i \in DOMAIN convActions |->
                                toLowerCase(OrEmpty(convActions[i].name))]
         IN Returned([actionNames |-> actionNames,
                      duplicatePatterns |-> findDuplicatePatterns(actionNames),
                      check |-> CheckById(checkConversionTracking(data), "G-CT1")])

(***************************************************************************)
(* Data collection (lines 152-167, 194-235)                                *)
(*                                                                         *)
(* An answer is what callTool makes of one query: threw tells that it      *)
(* threw (the tool call was rejected, or the content had no text),         *)
(* otherwise raw is what it returned: nothing, text without JSON, or the   *)
(* parsed object.                                                          *)
(***************************************************************************)
Thrown == [threw |-> TRUE, raw |-> NoQuery]
Answer(raw) == [threw |-> FALSE, raw |-> raw]

executeQuery_uncaught(answer) ==
    IF answer.threw THEN [raised |-> TRUE, value |-> NotArray("undefined")]
    ELSE LET r == transformColumnarData(answer.raw)
         IN IF r.raised THEN [raised |-> TRUE, value |-> NotArray("undefined")]
            ELSE [raised |-> FALSE, value |-> Dataset(r.rows)]

\* Returns [raised, value]: the try block holds the call of callTool and the call
\* of transformColumnarData, the catch block returns [].
executeQuery(answer) ==
    IF answer.threw THEN [raised |-> FALSE, value |-> Dataset(<<>>)]
    ELSE LET r == transformColumnarData(answer.raw)
         IN IF r.raised THEN [raised |-> FALSE, value |-> Dataset(<<>>)]
            ELSE [raised |-> FALSE, value |-> Dataset(r.rows)]

\* the query whose turn it is in `for (const [key, query] of Object.entries(QUERIES))`,
\* given the data filled so far
NextKey(data) == DatasetNames[Cardinality(DOMAIN data) + 1]

(***************************************************************************)
(* Slugs and the manifest (lines 248-253, 1168-1197)                       *)
(***************************************************************************)
RECURSIVE RemoveApostrophes(_)
\* .replace(/['']/g, '')
RemoveApostrophes(str) ==
    IF str = "" THEN ""
    ELSE (IF Head(str) = "'" THEN "" ELSE Head(str)) \o RemoveApostrophes(Tail(str))

SlugChars == Lowercase \o "0123456789"

RECURSIVE DashRuns(_, _)
\* .replace(/[^a-z0-9]+/g, '-'); inRun tells that the character before was
\* part of the run that is being replaced
DashRuns(str, inRun) ==
    IF str = "" THEN ""
    ELSE IF includes(SlugChars, Head(str)) THEN Head(str) \o DashRuns(Tail(str), FALSE)
    ELSE (IF inRun THEN "" ELSE "-") \o DashRuns(Tail(str), TRUE)

\* .replace(/^-|-$/g, '')
TrimDashes(str) ==
    LET a == IF str # "" /\ Head(str) = "-" THEN Tail(str) ELSE str
    IN IF a # "" /\ SubSeq(a, Len(a), Len(a)) = "-" THEN SubSeq(a, 1, Len(a) - 1) ELSE a

\* slugify(name), for a string
slugify(name) == TrimDashes(DashRuns(RemoveApostrophes(toLowerCase(name)), FALSE))

\* the order of the UTF-16 code units of the characters of dates
CodeUnitOrder == "-0123456789"

RECURSIVE IndexIn(_, _)
\* str.indexOf(c) + 1
IndexIn(str, c) ==
    IF str = "" THEN 0 ELSE IF Head(str) = c THEN 1
    ELSE LET i == IndexIn(Tail(str), c) IN IF i = 0 THEN 0 ELSE i + 1

RECURSIVE StringLess(_, _)
\* a < b for strings, the comparison of Array.prototype.sort() without comparator
StringLess(a, b) ==
    IF b = "" THEN FALSE
    ELSE IF a = "" THEN TRUE
    ELSE IF Head(a) = Head(b) THEN StringLess(Tail(a), Tail(b))
    ELSE IndexIn(CodeUnitOrder, Head(a)) < IndexIn(CodeUnitOrder, Head(b))

RECURSIVE InsertString(_, _)
InsertString(sorted, str) ==
    IF sorted = <<>> THEN <<str>>
    ELSE IF StringLess(str, Head(sorted)) THEN <<str>> \o sorted
    ELSE <<Head(sorted)>> \o InsertString(Tail(sorted), str)

RECURSIVE sort(_)
\* dates.sort(), a stable sort by StringLess
sort(strings) ==
    IF strings = <<>> THEN <<>>
    ELSE InsertString(sort(SubSeq(strings, 1, Len(strings) - 1)), strings[Len(strings)])

\* new Date().toISOString() at the tick t of the clock, t < 10
toISOString(t) == Today \o "T08:00:0" \o SubSeq("0123456789", t + 1, t + 1) \o ".000Z"

\* let manifest = { accounts: [], lastUpdated: '' }
NewManifest == [accounts |-> <<>>, lastUpdated |-> ""]

\* manifest.accounts.find(a => a.id === slug), as an index, 0 if there is none
FindEntry(accounts, slug) ==
    IF \E i \in DOMAIN accounts : accounts[i].id = slug
    THEN CHOOSE i \in DOMAIN accounts :
             accounts[i].id = slug /\ \A j \in 1..(i - 1) : accounts[j].id # slug
    ELSE 0

FindEntry_byName(accounts, acct) ==
    IF \E i \in DOMAIN accounts : accounts[i].name = acct.name.s
    THEN CHOOSE i \in DOMAIN accounts :
             accounts[i].name = acct.name.s /\ \A j \in 1..(i - 1) : accounts[j].name # acct.name.s
    ELSE 0

\* the body of the loop of updateManifest for one account
RecordAccount_byName(accounts, acct, date) ==
    LET slug == slugify(acct.name.s)
        existing == FindEntry_byName(accounts, acct)
    IN IF existing # 0
       THEN IF \E i \in DOMAIN accounts[existing].dates : accounts[existing].dates[i] = date
            THEN accounts
            ELSE [accounts EXCEPT ![existing].dates = sort(Append(@, date))]
       ELSE Append(accounts, [id |-> slug, name |-> acct.name.s,
                              customerId |-> acct.customerId, dates |-> <<date>>])

RecordAccount(accounts, acct, date) ==
    LET slug == slugify(acct.name.s)
        existing == FindEntry(accounts, slug)
    IN IF existing # 0
       THEN IF \E i \in DOMAIN accounts[existing].dates : accounts[existing].dates[i] = date
            THEN accounts
            ELSE [accounts EXCEPT ![existing].dates = sort(Append(@, date))]
       ELSE Append(accounts, [id |-> slug, name |-> acct.name.s,
                              customerId |-> acct.customerId, dates |-> <<date>>])

RECURSIVE RecordAccounts(_, _, _)
\* for (const acct of auditedAccounts) { ... }
RecordAccounts(accounts, audited, date) ==
    IF audited = <<>> THEN accounts
    ELSE RecordAccounts(RecordAccount(accounts, Head(audited), date), Tail(audited), date)

\* updateManifest(auditedAccounts, date) at the tick now of the clock, as the
\* manifest that it writes; file is the manifest read from manifest.json, or
\* NewManifest if there is no file
updateManifest(file, audited, date, now) ==
    [accounts |-> RecordAccounts(file.accounts, audited, date),
     lastUpdated |-> toISOString(now)]

(***************************************************************************)
(* The audit loop of main (lines 1157-1166, 1265-1295)                     *)
(***************************************************************************)
\* writeAuditFile(account, date, audit), as the file that it writes: its path
\* under DATA_DIR and, of its content, the identity of the account and the score
writeAuditFile(account, date, audit) ==
    [path |-> slugify(account.name.s) \o "/" \o date \o ".json",
     name |-> audit.account, customerId |-> audit.customerId,
     healthScore |-> audit.healthScore]

\* what collectAccountData hands to main: it threw, or the data it returned
CollectionThrew == [threw |-> TRUE, rawData |-> EmptyData]
Collection(rawData) == [threw |-> FALSE, rawData |-> rawData]

WriteAndRecord_recordFirst(audited, files, acct, audit, writeFails, today) ==
    IF audit.raised THEN [audited |-> audited, files |-> files, threw |-> TRUE]
    ELSE IF writeFails
    THEN [audited |-> Append(audited, acct), files |-> files, threw |-> TRUE]
    ELSE [audited |-> Append(audited, acct),
          files |-> Append(files, writeAuditFile(acct, today, audit)), threw |-> FALSE]

\* the try block of the loop of main from the return of runAudit on (lines
\* 1276-1279), audit being what runAudit gave: writeAuditFile, then the push;
\* writeFails tells that mkdirSync or writeFileSync throws
WriteAndRecord(audited, files, acct, audit, writeFails, today) ==
    IF audit.raised \/ writeFails THEN [audited |-> audited, files |-> files, threw |-> TRUE]
    ELSE [audited |-> Append(audited, acct),
          files |-> Append(files, writeAuditFile(acct, today, audit)), threw |-> FALSE]

\* the try block of the loop of main for one account (lines 1274-1283)
AuditOne(audited, files, acct, collection, writeFails, today) ==
    IF collection.threw THEN [audited |-> audited, files |-> files, threw |-> TRUE]
    ELSE WriteAndRecord(audited, files, acct, runAudit(acct, collection.rawData, today),
                        writeFails, today)

(***************************************************************************)
(* SpecScore: scoreCategory on a category of up to MaxChecks checks whose  *)
(* severity and result strings are drawn from the enums and from one       *)
(* string outside each enum.                                               *)
(***************************************************************************)
Severities == {"Critical", "High", "Medium", "Low"}
Results == {"PASS", "WARNING", "FAIL", "N/A"}
UnknownSeverity == "Info"
UnknownResult == "SKIPPED"

NotScored == [score |-> null, grade |-> ""]
NoOverall == [healthScore |-> null, grade |-> ""]

IdleScore == category = <<>> /\ scored = NotScored
IdleOverall == cats = <<>> /\ overall = NoOverall
IdleQuickWins == qcats = <<>> /\ wins = <<>>
IdleTransform ==
    queryResult = NoQuery /\ supplied = NoQuery /\ out1 = NoOutcome /\ out2 = NoOutcome
IdleAudit == auditAccount = DefaultAccount /\ auditData = EmptyData /\ report = NoReport
IdleCall == recCats = <<>> /\ recSnapshot = NoSnapshot /\ retval = NotCalled
IdleHistory == history = <<>> /\ fresh = <<>>
IdleCollect == collected = <<>> /\ failedQueries = {} /\ answered = 0
IdleManifest == manifest = NewManifest /\ calls = <<>>
IdleLoop ==
    /\ activeAccounts = <<>> /\ turn = 0 /\ auditedAccounts = <<>> /\ written = <<>>
    /\ thrown = {} /\ pushes = <<>>
IdleMain == IdleHistory /\ IdleCollect /\ IdleManifest /\ IdleLoop

InitScore ==
    /\ pc = "build" /\ IdleMain /\ IdleScore /\ IdleOverall /\ IdleQuickWins /\ IdleTransform /\ IdleAudit
    /\ IdleCall

PushCheck(severity, result) ==
    /\ pc = "build"
    /\ Len(category) < MaxChecks
    /\ category' = Append(category,
           [id |-> "K" \o ToString(Len(category) + 1), name |-> "check",
            severity |-> severity, result |-> result, finding |-> "finding"])
    /\ UNCHANGED <<mainVars, pc, scored, overallVars, qwVars, transformVars, auditVars, callVars>>

ScoreCategory ==
    /\ pc = "build"
    /\ scored' = scoreCategory([name |-> "Category", weight |-> "0%", checks |-> category])
    /\ pc' = "scored"
    /\ UNCHANGED <<mainVars, category, overallVars, qwVars, transformVars, auditVars, callVars>>

NextScore ==
    \/ \E severity \in Severities \cup {UnknownSeverity}, result \in Results \cup {UnknownResult} :
           PushCheck(severity, result)
    \/ ScoreCategory

SpecScore == InitScore /\ [][NextScore]_vars

(***************************************************************************)
(* SpecOverall: calculateOverallScore on the first categories of the fixed *)
(* list, each with a null score or one of ScoreSamples (tenths).           *)
(***************************************************************************)
ScoreSamples == {0, 255, 500, 725, 1000}

InitOverall ==
    /\ pc = "build" /\ IdleMain /\ IdleScore /\ IdleOverall /\ IdleQuickWins /\ IdleTransform /\ IdleAudit
    /\ IdleCall

PushCategory(score) ==
    /\ pc = "build"
    /\ Len(cats) < Len(CategoryNames)
    /\ cats' = Append(cats, [name |-> CategoryNames[Len(cats) + 1], score |-> score,
                             grade |-> scoreToGrade(score)])
    /\ UNCHANGED <<mainVars, pc, overall, scoreVars, qwVars, transformVars, auditVars, callVars>>

CalculateOverallScore ==
    /\ pc = "build"
    /\ overall' = calculateOverallScore(cats)
    /\ pc' = "scored"
    /\ UNCHANGED <<mainVars, cats, scoreVars, qwVars, transformVars, auditVars, callVars>>

NextOverall ==
    \/ \E score \in ScoreSamples \cup {null} : PushCategory(score)
    \/ CalculateOverallScore

SpecOverall == InitOverall /\ [][NextOverall]_vars

(***************************************************************************)
(* SpecQuickWins: identifyQuickWins on categories of QWCategorySize checks *)
(* each, up to MaxQWChecks checks in all.                                  *)
(***************************************************************************)
\* the ids the pushed checks get, by position in the input; "G99" and "G13" have no
\* entry in the tables of getQuickWinAction and getEstimatedTime
QWIds == <<"G42", "G13", "G05", "G99", "G11", "G36", "G06", "G57", "G50", "G16">>

QWKinds == {<<"Critical", "FAIL">>, <<"High", "FAIL">>, <<"Medium", "FAIL">>,
            <<"Critical", "WARNING">>}

QWCount == Len(AllChecks(qcats))

InitQuickWins ==
    /\ pc = "build" /\ IdleMain /\ IdleScore /\ IdleOverall /\ IdleQuickWins /\ IdleTransform /\ IdleAudit
    /\ IdleCall

PushQWCheck(kind) ==
    /\ pc = "build"
    /\ QWCount < MaxQWChecks
    /\ LET last == Len(qcats)
           open == last > 0 /\ Len(qcats[last].checks) < QWCategorySize
           check == [id |-> QWIds[(QWCount % Len(QWIds)) + 1], name |-> "check",
                     severity |-> kind[1], result |-> kind[2],
                     finding |-> "finding " \o ToString(QWCount + 1)]
       IN qcats' = IF open
                   THEN [qcats EXCEPT ![last].checks = Append(@, check)]
                   ELSE Append(qcats, [name |-> CategoryNames[(last % 6) + 1],
                                       checks |-> <<check>>])
    /\ UNCHANGED <<mainVars, pc, wins, scoreVars, overallVars, transformVars, auditVars, callVars>>

IdentifyQuickWins ==
    /\ pc = "build"
    /\ wins' = identifyQuickWins(qcats)
    /\ pc' = "done"
    /\ UNCHANGED <<mainVars, qcats, scoreVars, overallVars, transformVars, auditVars, callVars>>

NextQuickWins ==
    \/ \E kind \in QWKinds : PushQWCheck(kind)
    \/ IdentifyQuickWins

SpecQuickWins == InitQuickWins /\ [][NextQuickWins]_vars

(***************************************************************************)
(* SpecTransform: transformColumnarData, called twice on the same object.  *)
(* The object is absent, text, or an object with or without result,        *)
(* columns and data; columns are distinct dotted names, rows hold one      *)
(* value per column.                                                       *)
(***************************************************************************)
\* "a.b" and "a.c" share the prefix a; "a" is a prefix of both and "a.b" of "a.b.c"
ColumnNames == {"a", "a.b", "a.c", "a.b.c"}

\* the strings that are coerced, a number, and an (empty) object
CellValues == {JSString("true"), JSString("false"), JSNumber(5), JSObject(<<>>)}

QueryShapes ==
    {NoQuery, [NoQuery EXCEPT !.kind = "string"], [NoQuery EXCEPT !.kind = "object"]}
    \cup {[NoQuery EXCEPT !.kind = "object", !.hasResult = TRUE, !.columnsKind = ck, !.dataKind = dk] :
             ck \in {"undefined", "array"}, dk \in {"undefined", "array", "object"}}

InitTransform ==
    /\ pc = "build" /\ IdleMain /\ IdleScore /\ IdleOverall /\ IdleQuickWins /\ IdleAudit /\ IdleCall
    /\ queryResult \in QueryShapes
    /\ supplied = NoQuery /\ out1 = NoOutcome /\ out2 = NoOutcome

AddColumn(col) ==
    /\ pc = "build"
    /\ queryResult.columnsKind = "array" /\ queryResult.dataKind = "array"
    /\ queryResult.data = <<>>
    /\ Len(queryResult.columns) < MaxColumns
    /\ \A i \in DOMAIN queryResult.columns : queryResult.columns[i] # col
    /\ queryResult' = [queryResult EXCEPT !.columns = Append(@, col)]
    /\ UNCHANGED <<mainVars, pc, supplied, out1, out2, scoreVars, overallVars, qwVars, auditVars, callVars>>

AddRow(row) ==
    /\ pc = "build"
    /\ queryResult.columnsKind = "array" /\ queryResult.dataKind = "array"
    /\ Len(queryResult.data) < MaxRows
    /\ queryResult' = [queryResult EXCEPT !.data = Append(@, row)]
    /\ UNCHANGED <<mainVars, pc, supplied, out1, out2, scoreVars, overallVars, qwVars, auditVars, callVars>>

TransformOnce ==
    /\ pc = "build"
    /\ LET r == transformColumnarData(queryResult)
       IN /\ out1' = [called |-> TRUE, raised |-> r.raised, rows |-> r.rows]
          /\ queryResult' = r.queryResult
    /\ supplied' = queryResult
    /\ pc' = "once"
    /\ UNCHANGED <<mainVars, out2, scoreVars, overallVars, qwVars, auditVars, callVars>>

TransformAgain ==
    /\ pc = "once"
    /\ LET r == transformColumnarData(queryResult)
       IN /\ out2' = [called |-> TRUE, raised |-> r.raised, rows |-> r.rows]
          /\ queryResult' = r.queryResult
    /\ pc' = "twice"
    /\ UNCHANGED <<mainVars, supplied, out1, scoreVars, overallVars, qwVars, auditVars, callVars>>

NextTransform ==
    \/ \E col \in ColumnNames : AddColumn(col)
    \/ \E row \in [1..Len(queryResult.columns) -> CellValues] : AddRow(row)
    \/ TransformOnce
    \/ TransformAgain

SpecTransform == InitTransform /\ [][NextTransform]_vars

(***************************************************************************)
(* SpecAudit: runAudit on an account and its data.  The data start as      *)
(* thirteen empty arrays; up to MaxSet of the datasets and the account are *)
(* replaced by samples, then the audit runs.                               *)
(***************************************************************************)
SearchCampaign ==
    [EmptyRow EXCEPT !.name = JSString("Brand - Search"), !.status = "ENABLED",
                     !.advertisingChannelType = "SEARCH", !.biddingStrategyType = "MANUAL_CPC",
                     !.targetContentNetwork = TRUE]
PMaxCampaign ==
    [EmptyRow EXCEPT !.name = JSString("PMax | Non-Brand"), !.status = "ENABLED",
                     !.advertisingChannelType = "PERFORMANCE_MAX",
                     !.biddingStrategyType = "MAXIMIZE_CONVERSION_VALUE"]
PausedShopping ==
    [EmptyRow EXCEPT !.name = JSString("Shopping_All"), !.status = "PAUSED",
                     !.advertisingChannelType = "SHOPPING"]
\* a campaign called "true", after the normalizer made true of its name
CampaignCalledTrue ==
    [EmptyRow EXCEPT !.name = JSBoolean(TRUE), !.status = "ENABLED",
                     !.advertisingChannelType = "SEARCH"]
BusyMetrics ==
    [EmptyRow EXCEPT !.conversions = 420, !.costMicros = 600000000, !.clicks = 250,
                     !.impressions = 10000, !.searchImpressionShare = 35000]
QuietMetrics ==
    [EmptyRow EXCEPT !.conversions = 5, !.costMicros = 90000000, !.clicks = 10,
                     !.impressions = 1000]
PurchaseGA4 ==
    [EmptyRow EXCEPT !.name = JSString("Purchase - GA4"), !.type = "GOOGLE_ANALYTICS_4",
                     !.status = "ENABLED", !.category = "PURCHASE",
                     !.includeInConversionsMetric = TRUE]
PurchaseTag ==
    [EmptyRow EXCEPT !.name = JSString("Purchase (tag)"), !.type = "WEBPAGE",
                     !.status = "ENABLED", !.category = "PAGE_VIEW",
                     !.includeInConversionsMetric = TRUE]
CallUpload ==
    [EmptyRow EXCEPT !.name = JSString("Phone Call Lead"), !.type = "UPLOAD_CLICKS",
                     !.status = "ENABLED"]
NumberNamedAction == [EmptyRow EXCEPT !.name = JSNumber(7), !.status = "ENABLED"]
Keyword(qualityScore, matchType) ==
    [EmptyRow EXCEPT !.qualityScore = qualityScore, !.matchType = matchType]
Ad(type, adStrength) == [EmptyRow EXCEPT !.type = type, !.adStrength = adStrength]
OfKind(type) == [EmptyRow EXCEPT !.type = type]
Geo(type) == [EmptyRow EXCEPT !.positiveGeoTargetType = type]
Product(conversions, costMicros) ==
    [EmptyRow EXCEPT !.conversions = conversions, !.costMicros = costMicros]
NegativeList(memberCount) == [EmptyRow EXCEPT !.memberCount = memberCount]
Budget(amountMicros) == [EmptyRow EXCEPT !.amountMicros = amountMicros]
Spend(costMicros) == [EmptyRow EXCEPT !.costMicros = costMicros]

\* the samples of each dataset
DatasetSamples ==
    [n \in DOMAIN EmptyData |->
        {Dataset(<<NullRow>>)} \cup
        CASE n = "campaigns" ->
                 {Dataset(<<SearchCampaign>>), Dataset(<<PMaxCampaign, SearchCampaign>>),
                  Dataset(<<PausedShopping, NullRow>>), Dataset(<<CampaignCalledTrue>>),
                  Dataset(<<EmptyRow>>), NotArray("undefined"), NotArray("null"),
                  NotArray("object")}
          [] n = "campaign_budgets" -> {Dataset(<<Budget(20000000)>>), NotArray("undefined")}
          [] n = "account_metrics" ->
                 {Dataset(<<BusyMetrics>>), Dataset(<<QuietMetrics>>), NotArray("null")}
          [] n = "campaign_metrics" -> {Dataset(<<Spend(5000000)>>), NotArray("object")}
          [] n = "conversion_actions" ->
                 {Dataset(<<PurchaseGA4, PurchaseTag>>), Dataset(<<CallUpload>>),
                  Dataset(<<NumberNamedAction>>), NotArray("undefined")}
          [] n = "ad_groups" -> {Dataset(<<EmptyRow>>), NotArray("null")}
          [] n = "keywords" ->
                 {Dataset(<<Keyword(8, "EXACT"), Keyword(3, "BROAD"), Keyword(0, "")>>),
                  Dataset(<<Keyword(4, "EXACT")>>), NotArray("object")}
          [] n = "ads" ->
                 {Dataset(<<Ad("RESPONSIVE_SEARCH_AD", "GOOD"), Ad("RESPONSIVE_SEARCH_AD", "POOR"),
                            Ad("EXPANDED_TEXT_AD", ""), EmptyRow>>),
                  Dataset(<<Ad("RESPONSIVE_SEARCH_AD", "POOR")>>), NotArray("undefined")}
          [] n = "assets" ->
                 {Dataset(<<OfKind("SITELINK"), OfKind("SITELINK"), OfKind("SITELINK"),
                            OfKind("SITELINK"), OfKind("CALLOUT")>>),
                  Dataset(<<OfKind("IMAGE")>>), NotArray("null")}
          [] n = "geo_targeting" ->
                 {Dataset(<<Geo("PRESENCE")>>), Dataset(<<Geo("PRESENCE"), Geo("PRESENCE_OR_INTEREST")>>),
                  NotArray("object")}
          [] n = "shopping_performance" ->
                 {Dataset(<<Product(0, 30000000), Product(30, 70000000)>>),
                  Dataset(<<Product(0, 15500000)>>), NotArray("undefined")}
          [] n = "negative_lists" ->
                 {Dataset(<<NegativeList(10)>>),
                  Dataset(<<NegativeList(10), NegativeList(25), NegativeList(0)>>),
                  NotArray("null")}
          [] n = "user_lists" ->
                 {Dataset(<<OfKind("REMARKETING"), OfKind("CRM_BASED")>>), NotArray("object")}]

AccountSamples ==
    {Account(JSString("Smith Law Firm")), Account(JSString("")), Account(JSUndefined),
     Account(JSNumber(42)), NullAccount}

\* how many of the datasets and the account are no longer as Init set them
Replaced ==
    Cardinality({n \in DOMAIN auditData : auditData[n] # EmptyData[n]})
        + (IF auditAccount # DefaultAccount THEN 1 ELSE 0)

InitAudit ==
    /\ pc = "build" /\ IdleMain /\ IdleScore /\ IdleOverall /\ IdleQuickWins /\ IdleTransform /\ IdleCall
    /\ auditAccount = DefaultAccount /\ auditData = EmptyData /\ report = NoReport

SetDataset(n, d) ==
    /\ pc = "build"
    /\ Replaced < MaxSet
    /\ auditData[n] = EmptyData[n]
    /\ auditData' = [auditData EXCEPT ![n] = d]
    /\ UNCHANGED <<mainVars, pc, auditAccount, report, scoreVars, overallVars, qwVars, transformVars, callVars>>

SetAccount(a) ==
    /\ pc = "build"
    /\ Replaced < MaxSet
    /\ auditAccount = DefaultAccount
    /\ auditAccount' = a
    /\ UNCHANGED <<mainVars, pc, auditData, report, scoreVars, overallVars, qwVars, transformVars, callVars>>

RunAudit ==
    /\ pc = "build"
    /\ report' = runAudit(auditAccount, auditData, Today)
    /\ pc' = "audited"
    /\ UNCHANGED <<mainVars, auditAccount, auditData, scoreVars, overallVars, qwVars, transformVars, callVars>>

NextAudit ==
    \/ \E n \in DOMAIN auditData : \E d \in DatasetSamples[n] : SetDataset(n, d)
    \/ \E a \in AccountSamples : SetAccount(a)
    \/ RunAudit

SpecAudit == InitAudit /\ [][NextAudit]_vars

(***************************************************************************)
(* SpecIndustry: detectIndustry on an account name and the three datasets  *)
(* it reads                                                                *)
(***************************************************************************)
IndustryNames ==
    {"Acme Widgets", "Smith LAW Spa", "Legal Realty Group", "Attorney Tours",
     "Real Estate Health", "ROOFING Travel", "Dental Tours", "DNA Station",
     "Travel Engineering", "Engineering Tree", "Street Food", "Lawn Care",
     "Contracting & Construction", "Skin Diet"}

ConversionAction(cat) == [EmptyRow EXCEPT !.category = cat]
Campaign(advertisingChannelType) ==
    [EmptyRow EXCEPT !.status = "ENABLED", !.advertisingChannelType = advertisingChannelType]

\* the samples of the datasets that carry a signal of detectIndustry
IndustrySamples ==
    [n \in {"shopping_performance", "conversion_actions", "campaigns"} |->
        CASE n = "shopping_performance" -> {Dataset(<<Product(0, 30000000)>>)}
          [] n = "conversion_actions" ->
                 {Dataset(<<ConversionAction("PHONE_CALL_LEAD"), ConversionAction("PURCHASE")>>),
                  Dataset(<<ConversionAction("ADD_TO_CART")>>),
                  Dataset(<<ConversionAction("SUBMIT_LEAD_FORM")>>)}
          [] n = "campaigns" ->
                 {Dataset(<<Campaign("SEARCH"), Campaign("SHOPPING")>>),
                  Dataset(<<Campaign("PERFORMANCE_MAX")>>),
                  Dataset(<<Campaign("SEARCH"), Campaign("DISPLAY")>>)}]

InitIndustry ==
    /\ pc = "build" /\ IdleMain /\ IdleScore /\ IdleOverall /\ IdleQuickWins /\ IdleTransform /\ IdleCall
    /\ auditAccount \in {Account(JSString(n)) : n \in IndustryNames}
    /\ auditData = EmptyData /\ report = NoReport

SetSignal(n, d) ==
    /\ pc = "build"
    /\ auditData[n] = EmptyData[n]
    /\ auditData' = [auditData EXCEPT ![n] = d]
    /\ UNCHANGED <<mainVars, pc, auditAccount, report, scoreVars, overallVars, qwVars, transformVars, callVars>>

DetectIndustry ==
    /\ pc = "build"
    /\ retval' = DetectIndustryOutcome(auditAccount.name, auditData)
    /\ pc' = "called"
    /\ UNCHANGED <<mainVars, auditVars, recCats, recSnapshot, scoreVars, overallVars, qwVars, transformVars>>

NextIndustry ==
    \/ \E n \in DOMAIN IndustrySamples : \E d \in IndustrySamples[n] : SetSignal(n, d)
    \/ DetectIndustry

SpecIndustry == InitIndustry /\ [][NextIndustry]_vars

(***************************************************************************)
(* SpecDuplicates: findDuplicatePatterns and the check G-CT1 on a list of  *)
(* conversion actions                                                      *)
(***************************************************************************)
ActionNames ==
    {"Purchase - GA4", "Purchase - Shopify", "Lead Form", "Phone Call", "Calls from Ads",
     "Contact Form Submit", "Newsletter"}

NamedAction(name) ==
    [EmptyRow EXCEPT !.name = name, !.status = "ENABLED", !.type = "WEBPAGE",
                     !.category = "DEFAULT"]

\* conversion actions with a name, and one without
ActionSamples == {NamedAction(JSString(n)) : n \in ActionNames} \cup {NamedAction(JSUndefined)}

InitDuplicates ==
    /\ pc = "build" /\ IdleMain /\ IdleScore /\ IdleOverall /\ IdleQuickWins /\ IdleTransform /\ IdleCall
    /\ IdleAudit

AddAction(r) ==
    /\ pc = "build"
    /\ Len(auditData["conversion_actions"].rows) < MaxActions
    /\ auditData' = [auditData EXCEPT !["conversion_actions"].rows = Append(@, r)]
    /\ UNCHANGED <<mainVars, pc, auditAccount, report, scoreVars, overallVars, qwVars, transformVars, callVars>>

CheckDuplicates ==
    /\ pc = "build"
    /\ retval' = DuplicateCountingOutcome(auditData)
    /\ pc' = "called"
    /\ UNCHANGED <<mainVars, auditVars, recCats, recSnapshot, scoreVars, overallVars, qwVars, transformVars>>

NextDuplicates ==
    \/ \E r \in ActionSamples : AddAction(r)
    \/ CheckDuplicates

SpecDuplicates == InitDuplicates /\ [][NextDuplicates]_vars

(***************************************************************************)
(* SpecRecommend: generateRecommendations on scored categories             *)
(***************************************************************************)
RecIds == {"G42", "G-CT1", "G43", "G05", "G14", "G11", "G36", "G56", "G57", "G06"}

\* severity and result of the checks handed over
RecKinds ==
    {<<"Critical", "FAIL">>, <<"Critical", "WARNING">>, <<"High", "FAIL">>,
     <<"High", "WARNING">>, <<"High", "PASS">>, <<"Medium", "FAIL">>}

InitRecommend ==
    /\ pc = "build" /\ IdleMain /\ IdleScore /\ IdleOverall /\ IdleQuickWins /\ IdleTransform /\ IdleAudit
    /\ IdleCall

\* one category more, with one check
PushRecCheck(id, kind) ==
    LET c == [id |-> id, severity |-> kind[1], result |-> kind[2], finding |-> id]
    IN /\ pc = "build"
       /\ Len(recCats) < MaxRecChecks
       /\ recCats' = Append(recCats, [checks |-> <<c>>])
       /\ UNCHANGED <<mainVars, pc, recSnapshot, retval, scoreVars, overallVars, qwVars, transformVars,
                      auditVars>>

GenerateRecommendations ==
    /\ pc = "build"
    /\ retval' = Returned(generateRecommendations(recCats, "General", recSnapshot))
    /\ pc' = "called"
    /\ UNCHANGED <<mainVars, recCats, recSnapshot, scoreVars, overallVars, qwVars, transformVars, auditVars>>

NextRecommend ==
    \/ \E id \in RecIds : \E kind \in RecKinds : PushRecCheck(id, kind)
    \/ GenerateRecommendations

SpecRecommend == InitRecommend /\ [][NextRecommend]_vars

(***************************************************************************)
(* SpecScale: generateRecommendations on a snapshot, with the categories   *)
(* of an account that fails a Critical check or of one without checks      *)
(***************************************************************************)
\* shares in hundredths of a percent: unknown, zero, and values around 50
ShareSamples == {null, 0, 5, 3550, 4999, 5000, 5001, 7225, 10000}

\* conversions in tenths, around 15
ConversionSamples == {0, 149, 150, 151, 154, 155, 426}

ScaleCategories ==
    {<<>>,
     <<[checks |-> <<[id |-> "G05", severity |-> "Critical", result |-> "FAIL",
                      finding |-> "G05"]>>],
       [checks |-> <<>>]>>}

InitScale ==
    /\ pc = "build" /\ IdleMain /\ IdleScore /\ IdleOverall /\ IdleQuickWins /\ IdleTransform /\ IdleAudit
    /\ recCats \in ScaleCategories /\ recSnapshot = NoSnapshot /\ retval = NotCalled

SetShare(s) ==
    /\ pc = "build"
    /\ recSnapshot.searchImpressionShare = NoSnapshot.searchImpressionShare
    /\ recSnapshot' = [recSnapshot EXCEPT !.searchImpressionShare = s]
    /\ UNCHANGED <<mainVars, pc, recCats, retval, scoreVars, overallVars, qwVars, transformVars, auditVars>>

SetConversions(c) ==
    /\ pc = "build"
    /\ recSnapshot.conversions30d = NoSnapshot.conversions30d
    /\ recSnapshot' = [recSnapshot EXCEPT !.conversions30d = c]
    /\ UNCHANGED <<mainVars, pc, recCats, retval, scoreVars, overallVars, qwVars, transformVars, auditVars>>

NextScale ==
    \/ \E s \in ShareSamples : SetShare(s)
    \/ \E c \in ConversionSamples : SetConversions(c)
    \/ GenerateRecommendations

SpecScale == InitScale /\ [][NextScale]_vars

(***************************************************************************)
(* SpecSnapshot: buildSnapshot on a list of account-metric rows            *)
(***************************************************************************)
Metrics(impressions, clicks, costMicros, conversions, conversionsValue) ==
    [EmptyRow EXCEPT !.impressions = impressions, !.clicks = clicks,
                     !.costMicros = costMicros, !.conversions = conversions,
                     !.conversionsValue = conversionsValue]

\* account-metric rows: the example of section 8, rows with a single metric, rows
\* whose ratios do not end after two decimals, and rows with a share that is
\* absent, zero, tiny, ordinary, or held under the snake_case name
MetricSamples ==
    {EmptyRow,
     [Metrics(1000, 25, 50000000, 30, 100) EXCEPT !.searchImpressionShare = 35000],
     [Metrics(3, 1, 1000000, 7, 7) EXCEPT !.searchImpressionShare = 100000],
     Metrics(500, 0, 0, 0, 0),
     Metrics(0, 4, 0, 0, 0),
     Metrics(0, 0, 20000000, 0, 0),
     Metrics(0, 0, 0, 0, 100),
     Metrics(0, 0, 0, 25, 0),
     [Metrics(1000, 25, 0, 0, 0) EXCEPT !.searchImpressionShare = 0],
     [Metrics(0, 0, 0, 0, 0) EXCEPT !.searchImpressionShare = 4],
     [EmptyRow EXCEPT !.search_impression_share = 62000, !.cost_micros = 5000000,
                      !.conversions_value = 40, !.clicks = 3]}

InitSnapshot ==
    /\ pc = "build" /\ IdleMain /\ IdleScore /\ IdleOverall /\ IdleQuickWins /\ IdleTransform /\ IdleCall
    /\ IdleAudit

AddMetrics(r) ==
    /\ pc = "build"
    /\ Len(auditData["account_metrics"].rows) < MaxMetricRows
    /\ auditData' = [auditData EXCEPT !["account_metrics"].rows = Append(@, r)]
    /\ UNCHANGED <<mainVars, pc, auditAccount, report, scoreVars, overallVars, qwVars, transformVars, callVars>>

BuildSnapshot ==
    /\ pc = "build"
    /\ retval' = IF buildSnapshotRaises(auditData) THEN Raised
                 ELSE Returned(buildSnapshot(auditData))
    /\ pc' = "called"
    /\ UNCHANGED <<mainVars, auditVars, recCats, recSnapshot, scoreVars, overallVars, qwVars, transformVars>>

NextSnapshot ==
    \/ \E r \in MetricSamples : AddMetrics(r)
    \/ BuildSnapshot

SpecSnapshot == InitSnapshot /\ [][NextSnapshot]_vars

(***************************************************************************)
(* SpecProducts: analyzeProducts on a list of shopping rows                *)
(***************************************************************************)
ProductRow(productTitle, conversions, costMicros, conversionsValue) ==
    [EmptyRow EXCEPT !.productTitle = productTitle, !.conversions = conversions,
                     !.costMicros = costMicros, !.conversionsValue = conversionsValue]

\* products without conversions: $50, $12.345678 (titled under the snake_case
\* name), and exactly $10 (known by its item id only)
WidgetA == ProductRow("Widget A", 0, 50000000, 0)
WidgetC == [ProductRow("", 0, 0, 0) EXCEPT !.product_title = "Widget C",
                                           !.cost_micros = 12345678]
WidgetD == [ProductRow("", 0, 10000000, 0) EXCEPT !.productItemId = "sku-4"]

\* products with conversions: 3 conversions for $20 with a value of 100, the
\* same with the value 100 written in micros, half a conversion without cost,
\* and an untitled product
WidgetB == ProductRow("Widget B", 30, 20000000, 100)
WidgetM == ProductRow("Widget M", 30, 20000000, 100000000)
WidgetF == ProductRow("Widget F", 5, 0, 3)
Untitled == ProductRow("", 10, 4000000, 2000000)
\* a product sold twice without cost (a free listing), value 50 written in micros
WidgetZ == ProductRow("Widget Z", 20, 0, 50000000)

\* the rows of one list are drawn from one of these pairs
ProductPairs ==
    {{WidgetA, WidgetC}, {WidgetC, WidgetD}, {WidgetA, WidgetB}, {WidgetB, WidgetM},
     {WidgetM, WidgetF}, {WidgetB, WidgetF}, {WidgetM, Untitled}, {WidgetD, Untitled},
     {WidgetM, WidgetZ}}

InitProducts ==
    /\ pc = "build" /\ IdleMain /\ IdleScore /\ IdleOverall /\ IdleQuickWins /\ IdleTransform /\ IdleCall
    /\ IdleAudit

AddProduct(r) ==
    LET rows == auditData["shopping_performance"].rows
    IN /\ pc = "build"
       /\ Len(rows) < MaxProducts
       /\ \E p \in ProductPairs : {rows[i] : i \in DOMAIN rows} \cup {r} \subseteq p
       /\ auditData' = [auditData EXCEPT !["shopping_performance"].rows = Append(@, r)]
       /\ UNCHANGED <<mainVars, pc, auditAccount, report, scoreVars, overallVars, qwVars, transformVars,
                      callVars>>

AnalyzeProducts ==
    /\ pc = "build"
    /\ retval' = IF analyzeProductsRaises(auditData) THEN Raised
                 ELSE Returned(analyzeProducts(auditData))
    /\ pc' = "called"
    /\ UNCHANGED <<mainVars, auditVars, recCats, recSnapshot, scoreVars, overallVars, qwVars, transformVars>>

NextProducts ==
    \/ \E p \in ProductPairs : \E r \in p : AddProduct(r)
    \/ AnalyzeProducts

SpecProducts == InitProducts /\ [][NextProducts]_vars

(***************************************************************************)
(* SpecHistory: invocations of runAudit in two processes.  One process     *)
(* makes a single invocation (fresh); the other makes up to MaxRuns        *)
(* invocations in a row (history).  Each invocation is on an account, a    *)
(* dataset and a date drawn from HistoryInputs, and is kept with its       *)
(* report.  The single invocation is made first, so that what a run leaves *)
(* behind in its process cannot reach it.                                  *)
(***************************************************************************)
LawFirm == [Account(JSString("Smith Law Firm")) EXCEPT !.customerId = "555-000-1111"]

SearchData ==
    [EmptyData EXCEPT !["campaigns"] = Dataset(<<SearchCampaign>>),
                      !["keywords"] = Dataset(<<Keyword(8, "EXACT"), Keyword(3, "BROAD")>>),
                      !["account_metrics"] = Dataset(<<BusyMetrics>>)]

BrokenData == [EmptyData EXCEPT !["campaigns"] = Dataset(<<PausedShopping, NullRow>>)]

HistoryInputs ==
    {[account |-> DefaultAccount, rawData |-> EmptyData, date |-> Today],
     [account |-> DefaultAccount, rawData |-> SearchData, date |-> Today],
     [account |-> DefaultAccount, rawData |-> EmptyData, date |-> "2024-03-10"],
     [account |-> LawFirm, rawData |-> SearchData, date |-> Today],
     [account |-> LawFirm, rawData |-> BrokenData, date |-> Today]}

Invocation(in) ==
    [account |-> in.account, rawData |-> in.rawData, date |-> in.date,
     report |-> runAudit(in.account, in.rawData, in.date)]

InitHistory ==
    /\ pc = "build" /\ IdleScore /\ IdleOverall /\ IdleQuickWins /\ IdleTransform /\ IdleAudit
    /\ IdleCall /\ IdleCollect /\ IdleManifest /\ IdleLoop
    /\ history = <<>> /\ fresh = <<>>

InvokeFresh(in) ==
    /\ fresh = <<>> /\ history = <<>>
    /\ fresh' = <<Invocation(in)>>
    /\ UNCHANGED <<pc, history, collectVars, manifestVars, loopVars, scoreVars, overallVars, qwVars, transformVars,
                   auditVars, callVars>>

Invoke(in) ==
    /\ Len(history) < MaxRuns
    /\ history' = Append(history, Invocation(in))
    /\ UNCHANGED <<pc, fresh, collectVars, manifestVars, loopVars, scoreVars, overallVars, qwVars, transformVars,
                   auditVars, callVars>>

NextHistory ==
    \/ \E in \in HistoryInputs : InvokeFresh(in)
    \/ \E in \in HistoryInputs : Invoke(in)

SpecHistory == InitHistory /\ [][NextHistory]_vars

(***************************************************************************)
(* SpecKeywords: checkKeywordsQS on a list of campaigns drawn from samples *)
(* and up to MaxKeywords keyword rows whose quality score is drawn from    *)
(* QualityScores (0: the row has no score)                                 *)
(***************************************************************************)
PausedSearch == [SearchCampaign EXCEPT !.status = "PAUSED"]

CampaignLists ==
    {<<SearchCampaign>>, <<PausedSearch>>, <<PMaxCampaign>>, <<PausedShopping, SearchCampaign>>}

QualityScores == {0, 1, 4, 5, 6, 7, 9, 10}

\* the outcome of checkKeywordsQS(data)
KeywordsOutcome(data) ==
    IF checkKeywordsQSRaises(data) THEN Raised ELSE Returned(checkKeywordsQS(data))

InitKeywords ==
    /\ pc = "build" /\ IdleMain /\ IdleScore /\ IdleOverall /\ IdleQuickWins /\ IdleTransform
    /\ IdleCall
    /\ auditAccount = DefaultAccount /\ auditData = EmptyData /\ report = NoReport

SetCampaigns(rows) ==
    /\ pc = "build"
    /\ auditData["campaigns"] = EmptyData["campaigns"]
    /\ auditData' = [auditData EXCEPT !["campaigns"] = Dataset(rows)]
    /\ UNCHANGED <<mainVars, pc, auditAccount, report, scoreVars, overallVars, qwVars,
                   transformVars, callVars>>

AddKeyword(q) ==
    /\ pc = "build"
    /\ Len(auditData["keywords"].rows) < MaxKeywords
    /\ auditData' = [auditData EXCEPT
           !["keywords"] = Dataset(Append(auditData["keywords"].rows, Keyword(q, "EXACT")))]
    /\ UNCHANGED <<mainVars, pc, auditAccount, report, scoreVars, overallVars, qwVars,
                   transformVars, callVars>>

CheckKeywordsQS ==
    /\ pc = "build"
    /\ retval' = KeywordsOutcome(auditData)
    /\ pc' = "called"
    /\ UNCHANGED <<mainVars, auditVars, recCats, recSnapshot, scoreVars, overallVars, qwVars,
                   transformVars>>

NextKeywords ==
    \/ \E rows \in CampaignLists : SetCampaigns(rows)
    \/ \E q \in QualityScores : AddKeyword(q)
    \/ CheckKeywordsQS

SpecKeywords == InitKeywords /\ [][NextKeywords]_vars

(***************************************************************************)
(* SpecHealth: runAudit on an account in good order, after up to           *)
(* MaxDegraded of its datasets were replaced by the empty array or, the    *)
(* shopping rows, by rows of which the larger part of the spend is wasted  *)
(***************************************************************************)
DisplayCampaign ==
    [EmptyRow EXCEPT !.name = JSString("Brand - Display"), !.status = "ENABLED",
                     !.advertisingChannelType = "DISPLAY",
                     !.biddingStrategyType = "TARGET_ROAS"]

StrongMetrics == [BusyMetrics EXCEPT !.searchImpressionShare = 75000]

HealthyData ==
    [n \in DOMAIN EmptyData |->
        CASE n = "campaigns" -> Dataset(<<DisplayCampaign>>)
          [] n = "campaign_budgets" -> Dataset(<<Budget(20000000)>>)
          [] n = "account_metrics" -> Dataset(<<StrongMetrics>>)
          [] n = "campaign_metrics" -> Dataset(<<Spend(600000000)>>)
          [] n = "conversion_actions" ->
                 Dataset(<<[PurchaseGA4 EXCEPT !.includeInConversionsMetric = FALSE],
                           CallUpload>>)
          [] n = "ad_groups" -> Dataset(<<>>)
          [] n = "keywords" -> Dataset(<<>>)
          [] n = "ads" ->
                 Dataset(<<Ad("RESPONSIVE_DISPLAY_AD", ""), Ad("RESPONSIVE_DISPLAY_AD", ""),
                           Ad("RESPONSIVE_DISPLAY_AD", ""), Ad("IMAGE_AD", "")>>)
          [] n = "assets" ->
                 Dataset(<<OfKind("SITELINK"), OfKind("SITELINK"), OfKind("SITELINK"),
                           OfKind("SITELINK"), OfKind("CALLOUT"), OfKind("CALLOUT"),
                           OfKind("CALLOUT"), OfKind("CALLOUT"), OfKind("STRUCTURED_SNIPPET"),
                           OfKind("IMAGE"), OfKind("CALL")>>)
          [] n = "geo_targeting" -> Dataset(<<Geo("PRESENCE")>>)
          [] n = "shopping_performance" -> Dataset(<<Product(30, 70000000)>>)
          [] n = "negative_lists" ->
                 Dataset(<<NegativeList(10), NegativeList(25), NegativeList(30)>>)
          [] n = "user_lists" -> Dataset(<<OfKind("REMARKETING"), OfKind("CRM_BASED")>>)]

\* what a dataset of the healthy account may be replaced by
Worse ==
    [n \in DOMAIN EmptyData |->
        {EmptyData[n]} \cup
        (IF n = "shopping_performance"
         THEN {Dataset(<<Product(0, 30000000), Product(30, 20000000)>>)} ELSE {})]

\* how many datasets are no longer as HealthyData has them
Degraded == Cardinality({n \in DOMAIN auditData : auditData[n] # HealthyData[n]})

InitHealth ==
    /\ pc = "build" /\ IdleMain /\ IdleScore /\ IdleOverall /\ IdleQuickWins /\ IdleTransform
    /\ IdleCall
    /\ auditAccount = DefaultAccount /\ auditData = HealthyData /\ report = NoReport

Degrade(n, d) ==
    /\ pc = "build"
    /\ Degraded < MaxDegraded
    /\ auditData[n] = HealthyData[n] /\ d # HealthyData[n]
    /\ auditData' = [auditData EXCEPT ![n] = d]
    /\ UNCHANGED <<mainVars, pc, auditAccount, report, scoreVars, overallVars, qwVars,
                   transformVars, callVars>>

NextHealth ==
    \/ \E n \in DOMAIN auditData : \E d \in Worse[n] : Degrade(n, d)
    \/ RunAudit

SpecHealth == InitHealth /\ [][NextHealth]_vars

(***************************************************************************)
(* SpecCollect: collectAccountData for one account.  The thirteen queries  *)
(* run in the order of QUERIES; each gets the empty result, or, for up to  *)
(* MaxFaults of them, another answer of OtherAnswers.                      *)
(***************************************************************************)
ResultOf(columns, data) ==
    [NoQuery EXCEPT !.kind = "object", !.hasResult = TRUE, !.columnsKind = "array",
                    !.columns = columns, !.dataKind = "array", !.data = data]

\* {result: {columns: [], data: []}}
EmptyResult == ResultOf(<<>>, <<>>)

\* a rejected call, no content, text that is no JSON, a result whose data is no
\* array, a row that sets a property on a number, and a row of two cells
OtherAnswers ==
    {Thrown, Answer(NoQuery), Answer([NoQuery EXCEPT !.kind = "string"]),
     Answer([EmptyResult EXCEPT !.dataKind = "object"]),
     Answer(ResultOf(<<"a", "a.b">>, <<<<JSNumber(5), JSNumber(5)>>>>)),
     Answer(ResultOf(<<"a.b", "a.c">>, <<<<JSString("ENABLED"), JSString("true")>>>>))}

InitCollect ==
    /\ pc = "collecting" /\ IdleScore /\ IdleOverall /\ IdleQuickWins /\ IdleTransform
    /\ IdleAudit /\ IdleCall /\ IdleHistory /\ IdleManifest /\ IdleLoop
    /\ collected = <<>> /\ failedQueries = {} /\ answered = 0

\* one turn of the loop of collectAccountData, on the answer that callTool gives
RunQuery(answer) ==
    /\ pc = "collecting"
    /\ answer # Answer(EmptyResult) => answered < MaxFaults
    /\ LET key == NextKey(collected)
           r == executeQuery(answer)
           failed == answer.threw \/ transformColumnarData(answer.raw).raised
       IN /\ collected' = IF r.raised THEN collected
                          ELSE [k \in DOMAIN collected \cup {key} |->
                                   IF k = key THEN r.value ELSE collected[k]]
          /\ failedQueries' = IF failed THEN failedQueries \cup {key} ELSE failedQueries
          /\ pc' = IF r.raised THEN "aborted"
                   ELSE IF Cardinality(DOMAIN collected) + 1 = Len(DatasetNames)
                   THEN "collected" ELSE "collecting"
    /\ answered' = IF answer # Answer(EmptyResult) THEN answered + 1 ELSE answered
    /\ UNCHANGED <<historyVars, manifestVars, loopVars, scoreVars, overallVars, qwVars,
                   transformVars, auditVars, callVars>>

NextCollect ==
    \/ RunQuery(Answer(EmptyResult))
    \/ \E answer \in OtherAnswers : RunQuery(answer)

SpecCollect == InitCollect /\ [][NextCollect]_vars

(***************************************************************************)
(* SpecManifest: up to MaxCalls calls of updateManifest, starting without  *)
(* a manifest file, each with one of AuditedLists and one of RunDates.     *)
(***************************************************************************)
AcmeLoud == [Account(JSString("ACME  widgets!")) EXCEPT !.customerId = "222-333-4444"]
JoesPizza == [Account(JSString("Joe's Pizza")) EXCEPT !.customerId = "7770001111"]
JoesPizzaPlain == [Account(JSString("Joes Pizza")) EXCEPT !.customerId = "7770002222"]

\* DefaultAccount and AcmeLoud share the slug acme-widgets, JoesPizza and
\* JoesPizzaPlain the slug joes-pizza
AuditedLists ==
    {<<DefaultAccount>>, <<DefaultAccount, AcmeLoud>>, <<JoesPizza, DefaultAccount>>,
     <<AcmeLoud, JoesPizzaPlain, JoesPizza>>}

RunDates == {Today, "2024-03-10", "2023-12-31"}

InitManifest ==
    /\ pc = "manifest" /\ IdleScore /\ IdleOverall /\ IdleQuickWins /\ IdleTransform
    /\ IdleAudit /\ IdleCall /\ IdleHistory /\ IdleCollect /\ IdleLoop
    /\ manifest = NewManifest /\ calls = <<>>

\* one run of updateManifest; the clock ticks once between two runs
UpdateManifest(audited, date) ==
    /\ pc = "manifest"
    /\ Len(calls) < MaxCalls
    /\ manifest' = updateManifest(manifest, audited, date, Len(calls) + 1)
    /\ calls' = Append(calls, [accounts |-> audited, date |-> date])
    /\ UNCHANGED <<pc, historyVars, collectVars, loopVars, scoreVars, overallVars, qwVars,
                   transformVars, auditVars, callVars>>

NextManifest == \E audited \in AuditedLists, date \in RunDates : UpdateManifest(audited, date)

SpecManifest == InitManifest /\ [][NextManifest]_vars

(***************************************************************************)
(* SpecMain: main from the loop over the active accounts on.  The active   *)
(* accounts are up to MaxAccounts of MainAccounts in any order, repeats    *)
(* included; for each one the collection throws or returns one of          *)
(* CollectedSamples, and the write of the file fails or not.               *)
(***************************************************************************)
MainAccounts == {DefaultAccount, LawFirm, AcmeLoud}

\* BrokenData makes runAudit throw
CollectedSamples == {SearchData, BrokenData}

ActiveLists == UNION {[1..n -> MainAccounts] : n \in 0..MaxAccounts}

InitMain ==
    /\ pc = "auditing" /\ IdleScore /\ IdleOverall /\ IdleQuickWins /\ IdleTransform
    /\ IdleAudit /\ IdleCall /\ IdleHistory /\ IdleCollect /\ IdleManifest
    /\ activeAccounts \in ActiveLists
    /\ turn = 0 /\ auditedAccounts = <<>> /\ written = <<>> /\ thrown = {} /\ pushes = <<>>

\* what one turn leaves behind, r being the outcome of its try block
Taken(r) ==
    /\ auditedAccounts' = r.audited
    /\ written' = r.files
    /\ thrown' = IF r.threw THEN thrown \cup {turn + 1} ELSE thrown

\* one turn of `for (const acct of activeAccounts)`
AuditAccount(collection, writeFails) ==
    /\ pc = "auditing"
    /\ turn < Len(activeAccounts)
    /\ Taken(AuditOne(auditedAccounts, written, activeAccounts[turn + 1], collection,
                      writeFails, Today))
    /\ turn' = turn + 1
    /\ UNCHANGED <<pc, activeAccounts, pushes, manifestVars, historyVars, collectVars,
                   scoreVars, overallVars, qwVars, transformVars, auditVars, callVars>>

\* lines 1290-1295, after the loop
Publish ==
    /\ pc = "auditing"
    /\ turn = Len(activeAccounts)
    /\ IF Len(auditedAccounts) > 0
       THEN /\ manifest' = updateManifest(manifest, auditedAccounts, Today, Len(calls) + 1)
            /\ calls' = Append(calls, [accounts |-> auditedAccounts, date |-> Today])
            /\ pushes' = Append(pushes, Today)
       ELSE UNCHANGED <<manifest, calls, pushes>>
    /\ pc' = "closed"
    /\ UNCHANGED <<activeAccounts, turn, auditedAccounts, written, thrown, historyVars,
                   collectVars, scoreVars, overallVars, qwVars, transformVars, auditVars,
                   callVars>>

NextMain ==
    \/ \E writeFails \in BOOLEAN : AuditAccount(CollectionThrew, writeFails)
    \/ \E rawData \in CollectedSamples, writeFails \in BOOLEAN :
           AuditAccount(Collection(rawData), writeFails)
    \/ Publish

SpecMain == InitMain /\ [][NextMain]_vars

(***************************************************************************)
(* Claims on the Scorer and the Quick Win Selector                         *)
(***************************************************************************)
RECURSIVE SumOver(_, _)
\* the sum of f[i] over the finite set S
SumOver(S, f) == IF S = {} THEN 0 ELSE LET i == CHOOSE j \in S : TRUE IN f[i] + SumOver(S \ {i}, f)

\* the severity weights and result values as the specification states them, in tenths
StatedWeight == [Critical |-> 50, High |-> 30, Medium |-> 15, Low |-> 5]
StatedValue == [PASS |-> 10, WARNING |-> 5, FAIL |-> 0]

KnownEnums == \A i \in DOMAIN category :
    category[i].severity \in Severities /\ category[i].result \in Results

Remaining == {i \in DOMAIN category : category[i].result # "N/A"}

\* `scored` is what the stated formula gives when a severity outside the enum weighs
\* unknownWeight tenths and a result outside the enum is worth 0: no check remains and the
\* score is null with grade N/A, or score (tenths) is 1000 * earned / possible rounded to
\* the nearest integer, a half rounding up
ScoreIsStated(unknownWeight) ==
    LET w == [i \in Remaining |-> IF category[i].severity \in DOMAIN StatedWeight
                                  THEN StatedWeight[category[i].severity] ELSE unknownWeight]
        v == [i \in Remaining |-> IF category[i].result \in DOMAIN StatedValue
                                  THEN StatedValue[category[i].result] ELSE 0]
        possible == SumOver(Remaining, w)
        earned == SumOver(Remaining, [i \in Remaining |-> w[i] * v[i]])
    IN IF Remaining = {} THEN scored = [score |-> null, grade |-> "N/A"]
       ELSE /\ scored.score # null
            /\ IF possible = 0 THEN scored.score = 0
               ELSE /\ (2 * scored.score - 1) * possible <= 200 * earned
                    /\ 200 * earned < (2 * scored.score + 1) * possible

\* C1: scoreCategory ignores the N/A checks; with none left it returns score null and
\* grade N/A, otherwise the score is 100 * earned / possible rounded to one decimal, with
\* possible the sum of the severity weights of the remaining checks and earned the sum of
\* weight times result value (severities and results of the enums).
C1_ScoreFormula == (pc = "scored" /\ KnownEnums) => ScoreIsStated(0)

\* a category with an N/A check and two scored ones whose ratio 1.5 / 4.5 is rounded
C1_Witness ==
    /\ pc = "scored" /\ KnownEnums /\ Len(category) = 3
    /\ Cardinality(Remaining) = 2
    /\ scored.score = 333

StatedBand(score) ==
    CASE score >= 900 -> "A"
      [] score < 900 /\ score >= 750 -> "B"
      [] score < 750 /\ score >= 600 -> "C"
      [] score < 600 /\ score >= 400 -> "D"
      [] score < 400 -> "F"

\* the scores (tenths) on either side of each boundary of the bands, and the two ends
BandEdges == {0, 399, 400, 599, 600, 749, 750, 899, 900, 1000}

GradeRank(grade) ==
    CASE grade = "A" -> 5 [] grade = "B" -> 4 [] grade = "C" -> 3 [] grade = "D" -> 2
      [] grade = "F" -> 1 [] OTHER -> 0

\* C2: for a category with a check that is not N/A (enum severities and results) the
\* score is within [0, 100], the grade is the band of the score (90 A, 75 B, 60 C, 40 D,
\* else F), and no lower score has a better grade, no higher score a worse one.
C2_ScoreRangeAndBand ==
    (pc = "scored" /\ KnownEnums /\ Remaining # {}) =>
        /\ scored.score \in 0..1000
        /\ scored.grade = StatedBand(scored.score)
        /\ \A s \in BandEdges :
              /\ s <= scored.score => GradeRank(scoreToGrade(s)) <= GradeRank(scored.grade)
              /\ s >= scored.score => GradeRank(scoreToGrade(s)) >= GradeRank(scored.grade)

\* a category that scores exactly 75.0, the lower edge of band B
C2_Witness ==
    /\ pc = "scored" /\ KnownEnums /\ Remaining # {}
    /\ scored.score = 750 /\ scored.grade = "B"

Included == {i \in DOMAIN cats : cats[i].score # null}

StatedCategoryWeight == <<25, 20, 15, 15, 15, 10>>

\* C3: healthScore is the rounded quotient of the sum of score * weight over the
\* categories with a score and the sum of the weights of those same categories, with the
\* weights 0.25 / 0.20 / 0.15 / 0.15 / 0.15 / 0.10; a category with a null score is in
\* neither sum.
C3_OverallRenormalised ==
    pc = "scored" =>
        LET totalWeight == SumOver(Included, [i \in Included |-> StatedCategoryWeight[i]])
            weighted == SumOver(Included, [i \in Included |-> cats[i].score * StatedCategoryWeight[i]])
            h == overall.healthScore
        IN IF Included = {} THEN h = 0
           ELSE /\ (2 * h - 1) * 10 * totalWeight <= 2 * weighted
                /\ 2 * weighted < (2 * h + 1) * 10 * totalWeight

\* only the 0.10 category is null, and dividing by 0.90 instead of 1.00 changes the result
C3_Witness ==
    /\ pc = "scored" /\ Len(cats) = 6
    /\ Included = 1..5
    /\ LET weighted == SumOver(Included, [i \in Included |-> cats[i].score * StatedCategoryWeight[i]])
       IN /\ overall.healthScore = RoundDiv(weighted, 10 * 90)
          /\ overall.healthScore # RoundDiv(weighted, 10 * 100)

QWInput == AllChecks(qcats)

Qualifies(check) == check.result = "FAIL" /\ check.severity \in {"Critical", "High"}

\* C5: identifyQuickWins returns at most 7 entries, each with impact Critical or High and
\* with the id of a check of the input whose result is FAIL.
C5_QuickWinsBounded ==
    pc = "done" =>
        /\ Len(wins) <= 7
        /\ \A j \in DOMAIN wins :
              /\ wins[j].impact \in {"Critical", "High"}
              /\ \E i \in DOMAIN QWInput :
                    /\ QWInput[i].id = wins[j].check
                    /\ QWInput[i].result = "FAIL"
                    /\ QWInput[i].severity = wins[j].impact

\* seven quick wins out of an input that also holds a Medium FAIL or a Critical WARNING
C5_Witness ==
    /\ pc = "done" /\ Len(wins) = 7
    /\ \E i \in DOMAIN QWInput : ~Qualifies(QWInput[i])

\* C6: the quick wins are the first min(7, n) of the n checks with result FAIL and severity
\* Critical or High, in category order and then check order: the j-th entry is the j-th
\* qualifying check of the input.
C6_QuickWinsArePrefix ==
    pc = "done" =>
        LET q == {i \in DOMAIN QWInput : Qualifies(QWInput[i])}
            n == Cardinality(q)
            nth(j) == CHOOSE i \in q : Cardinality({k \in q : k <= i}) = j
        IN /\ Len(wins) = IF n < 7 THEN n ELSE 7
           /\ \A j \in DOMAIN wins :
                 /\ wins[j].check = QWInput[nth(j)].id
                 /\ wins[j].impact = QWInput[nth(j)].severity
                 /\ wins[j].time = getEstimatedTime(QWInput[nth(j)].id)

\* eight qualifying checks in three categories: the eighth is the one left out
C6_Witness ==
    /\ pc = "done" /\ Len(qcats) = 3
    /\ Cardinality({i \in DOMAIN QWInput : Qualifies(QWInput[i])}) = 8
    /\ Len(wins) = 7
    /\ wins[7].check = QWInput[7].id

(***************************************************************************)
(* Claims on the Data normalizer                                           *)
(***************************************************************************)
RECURSIVE ValueAt(_, _)
\* the value found in v along the path parts, JSUndefined where the path ends early
ValueAt(v, parts) ==
    IF parts = <<>> THEN v
    ELSE IF v.t = "object" /\ parts[1] \in DOMAIN v.o THEN ValueAt(v.o[parts[1]], Tail(parts))
    ELSE JSUndefined

Lacking(q) ==
    q.kind # "object" \/ ~q.hasResult \/ q.columnsKind = "undefined" \/ q.dataKind = "undefined"

\* C10: transformColumnarData never raises; an absent input or one lacking columns or
\* data yields the empty array; otherwise the result has one record per data row, and in
\* it every column's dotted path holds the row's value for that column ("true" / "false"
\* as booleans, any other value as supplied); the call leaves its input as it was, and a
\* second call on the same input returns what the first returned.
C10_TransformTotalAndPure ==
    out1.called =>
        /\ ~out1.raised
        /\ Lacking(supplied) => out1.rows = <<>>
        /\ ~Lacking(supplied) =>
              /\ Len(out1.rows) = Len(supplied.data)
              /\ \A k \in DOMAIN out1.rows : \A i \in DOMAIN supplied.columns :
                    ValueAt(out1.rows[k], Split(supplied.columns[i])) = Coerce(supplied.data[k][i])
        /\ queryResult = supplied
        /\ out2.called => out2 = out1

(***************************************************************************)
(* Claims on the Check Catalog and runAudit                                *)
(***************************************************************************)
\* the rule ids of the six categories, in catalog order
FixedIds ==
    <<<<"G42", "G43", "G44", "G45", "G46", "G47", "G48", "G49", "G-CT1", "G-CT2", "G-CT3">>,
      <<"G13", "G14", "G15", "G16", "G17", "G18", "G19", "G-WS1">>,
      <<"G01", "G02", "G03", "G04", "G05", "G06", "G07", "G08", "G09", "G10", "G11", "G12">>,
      <<"G20-G25", "G-KW1", "G-KW2">>,
      <<"G26-G30", "G31-G34", "G35", "G-AD1", "G-AD2", "G-PM1", "G-PM2", "G-PM3", "G-PM4",
        "G-PM5">>,
      <<"G36", "G39", "G40", "G50", "G51", "G52", "G53", "G54", "G56", "G57">>>>

FixedNames ==
    <<"Conversion Tracking", "Wasted Spend / Negatives", "Account Structure",
      "Keywords & Quality Score", "Ads & Assets", "Settings & Targeting + Bidding">>

Ids(cat) == [i \in DOMAIN cat.checks |-> cat.checks[i].id]

NoRepeat(ids) == \A i, j \in DOMAIN ids : ids[i] = ids[j] => i = j

\* the categories are the six of the catalog: fixed names in fixed order, each a key of
\* the weight table, and in each the fixed ids in order, each once
CatalogFixed(categories) ==
    /\ [i \in DOMAIN categories |-> categories[i].name] = FixedNames
    /\ \A i \in DOMAIN categories : categories[i].name \in DOMAIN CATEGORY_WEIGHTS
    /\ SumSeq([i \in DOMAIN FixedNames |-> CATEGORY_WEIGHTS[FixedNames[i]]]) = 100
    /\ \A i \in DOMAIN categories :
          Ids(categories[i]) = FixedIds[i] /\ NoRepeat(Ids(categories[i]))

\* C7: for every account and account data, runAudit yields exactly the six categories of
\* the catalog, in the fixed order and under names that are keys of the weight table
\* (whose weights sum to 1.0), each with its fixed sequence of rule ids, each id once,
\* whatever branch the evaluators take.
C7_AuditYieldsFixedCatalog ==
    pc = "audited" => report.returned /\ CatalogFixed(report.categories)

\* Every report that runAudit does return carries the fixed catalog: the branches of the
\* evaluators differ in results and findings, not in ids.
CatalogFixedWhenReturned ==
    report.returned => CatalogFixed(report.categories)

\* C8: runAudit (and so detectIndustry, buildSnapshot, the six evaluators and
\* analyzeProducts) returns normally for every account and for all account data:
\* datasets missing, null or no array, empty rows, null rows, fields of unexpected type.
C8_AuditNeverRaises ==
    pc = "audited" => ~report.raised

ReportChecks == AllChecks(report.categories)

\* C9: every check of every category a report carries has a non-empty finding, whatever
\* its result.
C9_FindingsNonEmpty ==
    report.returned =>
        \A i \in DOMAIN ReportChecks :
            Len(ReportChecks[i].finding) > 0

\* a report of an account with active search campaigns and keywords, so that also the
\* keyword checks have results, in which all four results occur
C9_Witness ==
    /\ report.returned
    /\ report.categories[4].score # null
    /\ \A r \in {"PASS", "WARNING", "FAIL", "N/A"} :
          \E i \in DOMAIN ReportChecks : ReportChecks[i].result = r
    /\ \E i \in DOMAIN ReportChecks :
          ReportChecks[i].result = "N/A" /\ Len(ReportChecks[i].finding) > 0

(***************************************************************************)
(* Claims on the Industry Classifier                                       *)
(***************************************************************************)
\* the name rules as section 4.2 orders them
StatedNameRules ==
    <<[label |-> "Legal", words |-> {"law", "legal", "attorney"}],
      [label |-> "Local Services",
       words |-> {"real estate", "realty", "roofing", "contracting", "construction"}],
      [label |-> "Healthcare", words |-> {"spa", "skin", "dental", "health", "diet", "dna"}],
      [label |-> "Travel", words |-> {"tour", "travel", "station"}],
      [label |-> "Local Services", words |-> {"engineering"}],
      [label |-> "Local Services", words |-> {"tree"}]>>

\* one of the three data signals is present
EcommerceSignal(data) ==
    \/ data["shopping_performance"].rows # <<>>
    \/ \E i \in DOMAIN data["conversion_actions"].rows :
          data["conversion_actions"].rows[i].category \in {"PURCHASE", "ADD_TO_CART"}
    \/ \E i \in DOMAIN data["campaigns"].rows :
          data["campaigns"].rows[i].advertisingChannelType \in {"SHOPPING", "PERFORMANCE_MAX"}

\* the name rules that match a name, whatever its case
MatchingRules(name) ==
    {k \in DOMAIN StatedNameRules :
        \E w \in StatedNameRules[k].words : includes(toLowerCase(name), w)}

StatedIndustry(name, data) ==
    IF EcommerceSignal(data) THEN "E-commerce"
    ELSE IF MatchingRules(name) = {} THEN "General"
    ELSE LET first == CHOOSE k \in MatchingRules(name) : \A j \in MatchingRules(name) : k <= j
         IN StatedNameRules[first].label

\* C11: detectIndustry returns the label of the first matching rule in the stated
\* order: the three data signals (E-commerce) before every name keyword, then
\* Legal, Local Services, Healthcare, Travel, engineering, tree, and General
\* when nothing matches; keywords match as substrings of the lowercased name.
C11_IndustryFirstMatch ==
    pc = "called" =>
        /\ ~retval.raised
        /\ retval.value = StatedIndustry(auditAccount.name.s, auditData)

\* a data signal wins over a legal keyword that the name writes in capitals
C11_Witness ==
    /\ pc = "called"
    /\ auditAccount.name.s = "Smith LAW Spa"
    /\ auditData["campaigns"] = Dataset(<<Campaign("PERFORMANCE_MAX")>>)
    /\ auditData["shopping_performance"] = EmptyData["shopping_performance"]
    /\ retval.value = "E-commerce"

(***************************************************************************)
(* Claims on the duplicate-pattern detector                                *)
(***************************************************************************)
StatedKeywords ==
    <<"purchase", "buy", "order", "phone", "call", "lead", "form", "submit", "contact">>

\* how many of the lowercased names of the conversion actions contain a keyword
StatedCount(k) ==
    Cardinality({i \in DOMAIN retval.value.actionNames :
                    includes(retval.value.actionNames[i], StatedKeywords[k])})

\* the keywords that more than one name contains
Duplicated == {k \in DOMAIN StatedKeywords : StatedCount(k) > 1}

\* the i-th duplicated keyword in the order of the keywords
NthDuplicated(i) == CHOOSE k \in Duplicated : Cardinality({j \in Duplicated : j < k}) = i - 1

\* the names are the names of the rows, lowercased
NamesAreLowercased ==
    LET rows == auditData["conversion_actions"].rows
        names == retval.value.actionNames
    IN /\ Len(names) = Len(rows)
       /\ \A i \in DOMAIN rows :
             /\ rows[i].name.t = "string" =>
                   /\ Len(names[i]) = Len(rows[i].name.s)
                   /\ \A j \in 1..Len(names[i]) :
                         LET c == SubSeq(rows[i].name.s, j, j)
                             l == SubSeq(names[i], j, j)
                         IN IF \E u \in 1..26 : SubSeq(Uppercase, u, u) = c
                            THEN \E u \in 1..26 : /\ SubSeq(Uppercase, u, u) = c
                                                  /\ SubSeq(Lowercase, u, u) = l
                            ELSE l = c
             /\ rows[i].name.t # "string" => names[i] = ""

\* C12: findDuplicatePatterns reports, keyword by keyword in the fixed order, a
\* pattern with the count of the lowercased names that contain the keyword,
\* exactly for the keywords that more than one name contains; G-CT1 is PASS
\* with no pattern, WARNING with exactly one and FAIL with two or more.
C12_DuplicatePatterns ==
    (pc = "called" /\ ~retval.raised) =>
        LET patterns == retval.value.duplicatePatterns
        IN /\ NamesAreLowercased
           /\ Len(patterns) = Cardinality(Duplicated)
           /\ \A i \in DOMAIN patterns :
                 patterns[i] = ToString(StatedCount(NthDuplicated(i))) \o "x \""
                                   \o StatedKeywords[NthDuplicated(i)] \o "\" actions"
           /\ retval.value.check.result =
                 (IF Cardinality(Duplicated) = 0 THEN "PASS"
                  ELSE IF Cardinality(Duplicated) = 1 THEN "WARNING" ELSE "FAIL")

\* the example of the claim: two purchase actions and a lead form
C12_Witness ==
    /\ pc = "called"
    /\ ~retval.raised
    /\ [i \in DOMAIN auditData["conversion_actions"].rows |->
           auditData["conversion_actions"].rows[i].name]
          = <<JSString("Purchase - GA4"), JSString("Purchase - Shopify"), JSString("Lead Form")>>
    /\ retval.value.duplicatePatterns = <<"2x \"purchase\" actions">>
    /\ retval.value.check.result = "WARNING"

(***************************************************************************)
(* Claims on the Recommendation Synthesizer                                *)
(***************************************************************************)
RecInput == AllChecks(recCats)

\* the items of phase n of the recommendations returned
Items(n) == retval.value[n].items

\* C13: when no check of the scored categories has severity Critical and result
\* FAIL, Phase 1 is exactly the single fallback item.
C13_FallbackOnly ==
    (pc = "called"
       /\ ~\E i \in DOMAIN RecInput :
             RecInput[i].severity = "Critical" /\ RecInput[i].result = "FAIL")
    => Items(1) = <<Rec.noCritical>>

\* a Critical warning of a trigger id and a High fail of another, and only the
\* fallback
C13_Witness ==
    /\ pc = "called"
    /\ \E i \in DOMAIN RecInput :
          RecInput[i].id = "G43" /\ RecInput[i].severity = "Critical"
              /\ RecInput[i].result = "WARNING"
    /\ \E i \in DOMAIN RecInput :
          RecInput[i].id = "G05" /\ RecInput[i].severity = "High" /\ RecInput[i].result = "FAIL"
    /\ Items(1) = <<Rec.noCritical>>

\* the items of phase n of the recommendations in the report
ReportItems(n) ==
    {report.recommendations[n].items[i] : i \in DOMAIN report.recommendations[n].items}

\* the report holds a check with this id and the result FAIL
Failed(id) == \E i \in DOMAIN ReportChecks : ReportChecks[i].id = id /\ ReportChecks[i].result = "FAIL"

\* a Critical check of the conversion-tracking cluster (G4x, G-CT) has the result FAIL
ClusterFailed ==
    \E i \in DOMAIN ReportChecks :
        /\ startsWith(ReportChecks[i].id, "G4") \/ startsWith(ReportChecks[i].id, "G-CT")
        /\ ReportChecks[i].severity = "Critical"
        /\ ReportChecks[i].result = "FAIL"

\* C14: on the categories of the Check Catalog every Phase 1 trigger can fire: a
\* FAIL of the conversion-tracking cluster, of G43, G05, G14 or G11 puts the
\* paragraph of that trigger into Phase 1; in particular a FAIL of the
\* geo-targeting check G11 puts the geographic-targeting paragraph there.
C14_PhaseOneTriggersFire ==
    report.returned =>
        /\ ClusterFailed => Rec.conversionTracking \in ReportItems(1)
        /\ Failed("G43") => Rec.enhancedConversions \in ReportItems(1)
        /\ Failed("G05") => Rec.brandCampaign \in ReportItems(1)
        /\ Failed("G14") => Rec.negativeLists \in ReportItems(1)
        /\ Failed("G11") => Rec.geoTargeting \in ReportItems(1)

\* the input holds a check with one of the ids, one of the severities and one of
\* the results
RecHas(ids, severities, results) ==
    \E i \in DOMAIN RecInput :
        /\ RecInput[i].id \in ids
        /\ RecInput[i].severity \in severities
        /\ RecInput[i].result \in results

ItemSet(n) == {Items(n)[i] : i \in DOMAIN Items(n)}

\* C15 as stated: the conditional Phase 2 paragraphs are added only for
\* High-severity fails (G36, G56 or G57, G06 with severity High and result FAIL);
\* a WARNING or a severity other than High never triggers one.
C15_PhaseTwoOnlyHighFails ==
    pc = "called" =>
        /\ Rec.smartBidding \in ItemSet(2) => RecHas({"G36"}, {"High"}, {"FAIL"})
        /\ Rec.audiences \in ItemSet(2) => RecHas({"G56", "G57"}, {"High"}, {"FAIL"})
        /\ Rec.pmax \in ItemSet(2) => RecHas({"G06"}, {"High"}, {"FAIL"})

\* C15 amended: the conditional Phase 2 paragraphs are added only for checks
\* whose result is FAIL or WARNING: the smart-bidding paragraph exactly when G36
\* has severity High and one of these results, the audience paragraph exactly
\* when G56 or G57 has, the PMax paragraph exactly when G06 has one of these
\* results, whatever its severity; the creative-refresh item always closes the
\* phase.
C15_PhaseTwoTriggers ==
    pc = "called" =>
        /\ Rec.smartBidding \in ItemSet(2) <=> RecHas({"G36"}, {"High"}, {"FAIL", "WARNING"})
        /\ Rec.audiences \in ItemSet(2)
              <=> RecHas({"G56", "G57"}, {"High"}, {"FAIL", "WARNING"})
        /\ Rec.pmax \in ItemSet(2)
              <=> RecHas({"G06"}, {"Critical", "High", "Medium"}, {"FAIL", "WARNING"})
        /\ Items(2)[Len(Items(2))] = Rec.creative
        /\ ItemSet(2) \subseteq {Rec.smartBidding, Rec.audiences, Rec.pmax, Rec.creative}

\* a High warning of G36 and a Medium fail of G06 put their paragraphs into Phase 2
C15_Witness ==
    /\ pc = "called"
    /\ RecHas({"G36"}, {"High"}, {"WARNING"})
    /\ ~RecHas({"G36"}, {"High"}, {"FAIL"})
    /\ RecHas({"G06"}, {"Medium"}, {"FAIL"})
    /\ Items(2) = <<Rec.smartBidding, Rec.pmax, Rec.creative>>

\* C16: Phase 3 starts with exactly one of two items, the impression-share item
\* citing the snapshot's percentage if and only if the share is known (not null)
\* and below 50, otherwise the generic budget-scaling item; the volume item is
\* present iff conversions30d > 15; the demand-gen and the server-side-tracking
\* item are always the last two.
C16_PhaseThreeItems ==
    pc = "called" =>
        LET p == Items(3)
            share == recSnapshot.searchImpressionShare
            volume == recSnapshot.conversions30d > 150
        IN /\ p[1] = (IF share # null /\ share < 5000 THEN RecImpressionShare(share)
                      ELSE Rec.budgetScaling)
           /\ Len(p) = (IF volume THEN 4 ELSE 3)
           /\ volume => p[2] = RecVolume(recSnapshot.conversions30d)
           /\ p[Len(p) - 1] = Rec.demandGen
           /\ p[Len(p)] = Rec.serverSide

(***************************************************************************)
(* Claims on the Snapshot Builder                                          *)
(***************************************************************************)
MetricRows == auditData["account_metrics"].rows

\* the totals of the account-metric rows; spend in cents (the rows of the model
\* spend whole cents), conversions in tenths
TotalImpressions == SumOver(DOMAIN MetricRows, [i \in DOMAIN MetricRows |-> MetricRows[i].impressions])
TotalClicks == SumOver(DOMAIN MetricRows, [i \in DOMAIN MetricRows |-> MetricRows[i].clicks])
TotalConversions ==
    SumOver(DOMAIN MetricRows, [i \in DOMAIN MetricRows |-> MetricRows[i].conversions])
TotalSpendCents ==
    SumOver(DOMAIN MetricRows,
            [i \in DOMAIN MetricRows |->
                (IF MetricRows[i].costMicros # 0 THEN MetricRows[i].costMicros
                 ELSE MetricRows[i].cost_micros) \div 10000])
TotalValue ==
    SumOver(DOMAIN MetricRows,
            [i \in DOMAIN MetricRows |->
                IF MetricRows[i].conversionsValue # 0 THEN MetricRows[i].conversionsValue
                ELSE MetricRows[i].conversions_value])

\* f is num / den to the nearest integer
Nearest(f, num, den) ==
    LET diff == f * den - num IN 2 * (IF diff < 0 THEN 0 - diff ELSE diff) <= den

\* C17: ctr is 0 when the total impressions are 0, avgCpc is 0 when the clicks are
\* 0, roas is 0 when the spend is 0, cpa is 0 when the conversions are 0;
\* otherwise each is the ratio of the summed account-metric totals (CTR as a
\* percentage), to the two decimals the snapshot keeps.
C17_SnapshotRatios ==
    (pc = "called" /\ ~retval.raised) =>
        LET s == retval.value
        IN /\ IF TotalImpressions = 0 THEN s.ctr = 0
              ELSE Nearest(s.ctr, TotalClicks * 10000, TotalImpressions)
           /\ IF TotalClicks = 0 THEN s.avgCpc = 0
              ELSE Nearest(s.avgCpc, TotalSpendCents, TotalClicks)
           /\ IF TotalSpendCents = 0 THEN s.roas = 0
              ELSE Nearest(s.roas, TotalValue * 10000, TotalSpendCents)
           /\ IF TotalConversions = 0 THEN s.cpa = 0
              ELSE Nearest(s.cpa, TotalSpendCents * 10, TotalConversions)

\* the example of the claim (1000 impressions, 25 clicks: 2.5) next to a row of
\* conversion value without spend
C17_Witness ==
    /\ pc = "called"
    /\ ~retval.raised
    /\ MetricRows = <<Metrics(0, 0, 0, 0, 100),
                      [Metrics(1000, 25, 0, 0, 0) EXCEPT !.searchImpressionShare = 0]>>
    /\ retval.value.ctr = 250
    /\ retval.value.roas = 0
    /\ retval.value.conversionValue30d = 100

\* the share the first account-metric row carries, in units of 0.00001; null: none
CarriedShare ==
    IF MetricRows = <<>> THEN null
    ELSE IF MetricRows[1].searchImpressionShare # null THEN MetricRows[1].searchImpressionShare
    ELSE MetricRows[1].search_impression_share

\* C18: the snapshot's searchImpressionShare is null exactly when the first
\* account-metric row carries no share; a share the row carries, the share 0
\* included, is in the snapshot as the share times 100 (to two decimals).
C18_ShareNullOnlyWhenAbsent ==
    (pc = "called" /\ ~retval.raised) =>
        IF CarriedShare = null THEN retval.value.searchImpressionShare = null
        ELSE /\ retval.value.searchImpressionShare # null
             /\ Nearest(retval.value.searchImpressionShare, CarriedShare, 10)

(***************************************************************************)
(* Claims on the Product Analyzer                                          *)
(***************************************************************************)
ShoppingRows == auditData["shopping_performance"].rows

\* the cost of a shopping row in micros
RowCost(i) ==
    IF ShoppingRows[i].costMicros # 0 THEN ShoppingRows[i].costMicros
    ELSE ShoppingRows[i].cost_micros

\* the name a topWasted entry gives to a row
WastedName(i) ==
    IF ShoppingRows[i].productTitle # "" THEN ShoppingRows[i].productTitle
    ELSE IF ShoppingRows[i].product_title # "" THEN ShoppingRows[i].product_title
    ELSE IF ShoppingRows[i].productItemId # "" THEN ShoppingRows[i].productItemId
    ELSE "Unknown"

\* the rows that qualify for topWasted: no conversions, spend above $10
Wasteful == {i \in DOMAIN ShoppingRows : ShoppingRows[i].conversions = 0 /\ RowCost(i) > 10000000}

\* the k-th highest cost among the rows of a set
KthCost(S, k) ==
    CHOOSE c \in {RowCost(i) : i \in S} :
        /\ Cardinality({i \in S : RowCost(i) > c}) < k
        /\ Cardinality({i \in S : RowCost(i) >= c}) >= k

\* C19: topWasted holds only rows with zero conversions and a spend strictly
\* above 10, in non-increasing order of spend, at most 8 of them, and no
\* qualifying row left out has a higher spend than a row included; each entry
\* reports conversions 0, value 0 and the spend rounded to cents.
C19_TopWasted ==
    (pc = "called" /\ ~retval.raised) =>
        LET top == retval.value.topWasted
        IN /\ Len(top) <= 8
           /\ Len(top) = (IF Cardinality(Wasteful) < 8 THEN Cardinality(Wasteful) ELSE 8)
           /\ \A k \in DOMAIN top :
                 /\ top[k].spend = RoundDiv(KthCost(Wasteful, k), 10000)
                 /\ \E i \in Wasteful :
                       RowCost(i) = KthCost(Wasteful, k) /\ top[k].product = WastedName(i)
                 /\ top[k].conversions = 0
                 /\ top[k].value = 0
           /\ \A k \in 1..(Len(top) - 1) : top[k].spend >= top[k + 1].spend

\* nine qualifying rows of two spends, the cheaper ones first: eight entries,
\* the dearer ones in front, one of the cheaper ones left out
C19_Witness ==
    /\ pc = "called"
    /\ ~retval.raised
    /\ Cardinality(Wasteful) = 9
    /\ ShoppingRows[1] = WidgetC
    /\ ShoppingRows[9] = WidgetA
    /\ Len(retval.value.topWasted) = 8
    /\ retval.value.topWasted[1] =
          [product |-> "Widget A", spend |-> 5000, conversions |-> 0, value |-> 0]
    /\ retval.value.topWasted[8] =
          [product |-> "Widget C", spend |-> 1235, conversions |-> 0, value |-> 0]

\* the rows that qualify for topPerforming
Performing == {i \in DOMAIN ShoppingRows : ShoppingRows[i].conversions > 0}

\* the per-row ROAS of the claim, conversionValue / max(spend, 0.01), as a
\* fraction: value over spend in micros, the spend at least 10000 micros
RowValue(i) ==
    IF ShoppingRows[i].conversionsValue # 0 THEN ShoppingRows[i].conversionsValue
    ELSE ShoppingRows[i].conversions_value
RowFloor(i) == IF RowCost(i) > 10000 THEN RowCost(i) ELSE 10000

\* the rows an entry of topPerforming can come from
RowsCalled(product) ==
    {i \in Performing :
        product = (IF ShoppingRows[i].productTitle # "" THEN ShoppingRows[i].productTitle
                   ELSE IF ShoppingRows[i].product_title # ""
                   THEN ShoppingRows[i].product_title ELSE "Unknown")}

\* C20: topPerforming holds only rows with conversions > 0, at most 5 of them,
\* in non-increasing order of the per-row ROAS conversionValue / max(spend, 0.01);
\* for one row with 3 conversions, spend 20 and value 100 the entry is
\* {spend: 20, conversions: 3, value: 100, roas: 5}.
C20_TopPerforming ==
    (pc = "called" /\ ~retval.raised) =>
        LET top == retval.value.topPerforming
        IN /\ Len(top) = (IF Cardinality(Performing) < 5 THEN Cardinality(Performing) ELSE 5)
           /\ \A k \in DOMAIN top : RowsCalled(top[k].product) # {}
           /\ \A k \in 1..(Len(top) - 1) :
                 \E i \in RowsCalled(top[k].product), j \in RowsCalled(top[k + 1].product) :
                     ~RatioLess(RowValue(i), RowFloor(i), RowValue(j), RowFloor(j))
           /\ ShoppingRows = <<WidgetB>> =>
                 top = <<[product |-> "Widget B", spend |-> 2000, conversions |-> 30,
                          value |-> 100, roas |-> 50]>>

(***************************************************************************)
(* Claims on runAudit as a whole                                           *)
(***************************************************************************)
SameInput(a, b) == a.account = b.account /\ a.rawData = b.rawData /\ a.date = b.date

Invocations == {history[i] : i \in DOMAIN history} \cup {fresh[i] : i \in DOMAIN fresh}

KeywordRows == auditData["keywords"].rows
CampaignRows == auditData["campaigns"].rows

EnabledSearchExists ==
    \E i \in DOMAIN CampaignRows :
        CampaignRows[i].advertisingChannelType = "SEARCH" /\ CampaignRows[i].status = "ENABLED"

PositiveScores == {i \in DOMAIN KeywordRows : KeywordRows[i].qualityScore > 0}
ScoreTotal == SumOver(PositiveScores, [i \in DOMAIN KeywordRows |-> KeywordRows[i].qualityScore])

\* the average of the positive quality scores is at least t (0 when there is none)
AverageAtLeast(t) ==
    IF PositiveScores = {} THEN 0 >= t ELSE ScoreTotal >= t * Cardinality(PositiveScores)

StatedQSResult ==
    IF EnabledSearchExists /\ Len(KeywordRows) >= 1
    THEN IF AverageAtLeast(7) THEN "PASS" ELSE IF AverageAtLeast(5) THEN "WARNING" ELSE "FAIL"
    ELSE "N/A"

\* C22: with an ENABLED SEARCH campaign and at least one keyword row, G20-G25 is
\* PASS when the average of the positive quality scores is >= 7, WARNING when it
\* is >= 5 and < 7, FAIL when it is < 5 (the average of no score being 0);
\* without such a campaign or without keyword rows it is N/A.
C22_QualityScoreBands ==
    (pc = "called" /\ ~retval.raised) =>
        CheckById(retval.value, "G20-G25").result = StatedQSResult

\* an average of exactly 7 over a 10 and a 4, next to a row without score: PASS
C22_Witness ==
    /\ pc = "called" /\ ~retval.raised
    /\ EnabledSearchExists
    /\ Len(KeywordRows) = 3
    /\ Cardinality(PositiveScores) = 2 /\ ScoreTotal = 14
    /\ CheckById(retval.value, "G20-G25").result = "PASS"

(***************************************************************************)
(* Claims on the overall score of a report                                 *)
(***************************************************************************)
StatedHealthBand(h) ==
    IF h >= 90 THEN "A" ELSE IF h >= 75 THEN "B" ELSE IF h >= 60 THEN "C"
    ELSE IF h >= 40 THEN "D" ELSE "F"

StatedVerdict ==
    [A |-> "Well-optimized account", B |-> "Good with improvement opportunities",
     C |-> "Needs attention - notable issues", D |-> "Poor - significant problems present",
     F |-> "Urgent intervention required"]

\* C23: in every report that runAudit returns, healthScore is an integer from 0 to
\* 100, grade is the band of healthScore (>= 90 A, >= 75 B, >= 60 C, >= 40 D,
\* else F) and verdict is the fixed sentence of that grade.
C23_HealthGradeVerdict ==
    report.returned =>
        /\ report.healthScore \in 0..100
        /\ report.grade = StatedHealthBand(report.healthScore)
        /\ report.verdict = StatedVerdict[report.grade]

\* a report of grade B on the lower edge of its band
C23_Witness ==
    /\ report.returned
    /\ report.healthScore \in 75..79
    /\ report.grade = "B"
    /\ report.verdict = "Good with improvement opportunities"

\* C24: the roas values of the topPerforming entries are in non-increasing order
\* from the first entry to the last, also for rows whose spend is 0 or below 0.01.
C24_RoasNonIncreasing ==
    (pc = "called" /\ ~retval.raised) =>
        \A i, j \in DOMAIN retval.value.topPerforming :
            i < j => retval.value.topPerforming[i].roas >= retval.value.topPerforming[j].roas

\* C25: whenever Phase 1 of the recommendations of a report is the fallback item
\* "No critical failures found ...", no check of the report has severity Critical
\* and result FAIL.
C25_FallbackMeansNoCriticalFail ==
    (report.returned /\ report.recommendations[1].items = <<Rec.noCritical>>) =>
        ~\E i \in DOMAIN ReportChecks :
            ReportChecks[i].severity = "Critical" /\ ReportChecks[i].result = "FAIL"

KeywordsCategory == "Keywords & Quality Score"

\* C26: in every report of runAudit only the Keywords & Quality Score category
\* can have a null score: each of the other five categories holds a check whose
\* result is not N/A and so has a number as its score; hence some category is
\* scored (the all-null branch of calculateOverallScore is not taken) and the
\* verdict is never "Assessment pending".
C26_OnlyKeywordsUnscored ==
    report.returned =>
        /\ \A i \in DOMAIN report.categories :
               report.categories[i].name # KeywordsCategory =>
                   /\ \E j \in DOMAIN report.categories[i].checks :
                          report.categories[i].checks[j].result # "N/A"
                   /\ report.categories[i].score # null
        /\ Cardinality({i \in DOMAIN report.categories : report.categories[i].score # null}) >= 5
        /\ report.verdict # "Assessment pending"

\* a report whose Keywords & Quality Score category is unscored, and one whose
\* Settings category fails every check and is scored 0
C26_Witness ==
    /\ report.returned
    /\ Len(report.categories) = 6
    /\ report.categories[4].name = KeywordsCategory /\ report.categories[4].score = null
    /\ report.categories[6].score = 0
    /\ report.verdict = "Urgent intervention required"

(***************************************************************************)
(* Relations between scores of scoreCategory                               *)
(***************************************************************************)
AsCategory(checks) == [name |-> "Category", weight |-> "0%", checks |-> checks]

\* FAIL < WARNING < PASS
ResultRank(result) == CASE result = "FAIL" -> 0 [] result = "WARNING" -> 1 [] result = "PASS" -> 2

\* the category with check i given another result
WithResult(i, result) == [category EXCEPT ![i].result = result]

\* the category with an N/A check put before check k (after the last for k = Len + 1)
WithNAAt(k, severity) ==
    SubSeq(category, 1, k - 1)
        \o <<[id |-> "K0", name |-> "check", severity |-> severity, result |-> "N/A",
              finding |-> "finding"]>>
        \o SubSeq(category, k, Len(category))

\* the category without check i
Without(i) == SubSeq(category, 1, i - 1) \o SubSeq(category, i + 1, Len(category))

\* C27: scoreCategory is monotone in each check: giving one check that is FAIL
\* or WARNING a better result (FAIL to WARNING, WARNING to PASS, FAIL to PASS),
\* the other checks unchanged, never lowers the category score; adding an N/A
\* check or removing one never changes the score.
C27_ScoreMonotone ==
    pc = "scored" =>
        /\ \A i \in DOMAIN category : \A better \in {"WARNING", "PASS"} :
               (category[i].result \in {"FAIL", "WARNING"}
                    /\ ResultRank(better) > ResultRank(category[i].result))
               => scoreCategory(AsCategory(WithResult(i, better))).score >= scored.score
        /\ \A k \in 1..(Len(category) + 1) : \A severity \in Severities \cup {UnknownSeverity} :
               scoreCategory(AsCategory(WithNAAt(k, severity))) = scored
        /\ \A i \in DOMAIN category :
               category[i].result = "N/A" => scoreCategory(AsCategory(Without(i))) = scored

\* a Critical FAIL next to a Low WARNING and an N/A check: the score is 4.5, and
\* 50 once the FAIL is a WARNING
C27_Witness ==
    /\ pc = "scored"
    /\ Len(category) = 3
    /\ \E i, j, k \in DOMAIN category :
           /\ category[i].result = "FAIL" /\ category[i].severity = "Critical"
           /\ category[j].result = "WARNING" /\ category[j].severity = "Low"
           /\ category[k].result = "N/A"
           /\ scoreCategory(AsCategory(WithResult(i, "WARNING"))).score = 500
    /\ scored.score = 45

(***************************************************************************)
(* Claims on the data collection and on main                               *)
(***************************************************************************)
AllDatasetNames == {DatasetNames[i] : i \in DOMAIN DatasetNames}

\* C28: a failed query never aborts the data collection of an account:
\* executeQuery catches every error of the query and returns an empty array,
\* so collectAccountData returns an entry for each of the thirteen dataset
\* names, each an array, and the entry of a failed query is what the entry of
\* a query with an empty result is.
C28_FailedQueryIsEmptyDataset ==
    /\ pc # "aborted"
    /\ \A n \in DOMAIN collected : collected[n].kind = "array"
    /\ \A n \in failedQueries :
           n \in DOMAIN collected /\ collected[n] = executeQuery(Answer(EmptyResult)).value
    /\ pc = "collected" => DOMAIN collected = AllDatasetNames

\* the collection is complete after the query of the campaigns failed, next to
\* a query that returned a row
C28_Witness ==
    /\ pc = "collected"
    /\ failedQueries = {"campaigns"}
    /\ \E n \in DOMAIN collected : collected[n].rows # <<>>
    /\ Cardinality(DOMAIN collected) = 13

(***************************************************************************)
(* Claims on the manifest                                                  *)
(***************************************************************************)
RECURSIVE ToNat(_)
\* the number that a string of digits writes
ToNat(digits) ==
    IF digits = "" THEN 0
    ELSE ToNat(SubSeq(digits, 1, Len(digits) - 1)) * 10
         + IndexIn("0123456789", SubSeq(digits, Len(digits), Len(digits))) - 1

\* the day that YYYY-MM-DD names, as the number YYYYMMDD
DateNumber(date) ==
    ToNat(SubSeq(date, 1, 4)) * 10000 + ToNat(SubSeq(date, 6, 7)) * 100
    + ToNat(SubSeq(date, 9, 10))

\* C30: after any sequence of updateManifest calls starting from an empty
\* manifest, the manifest has at most one entry per account slug, the dates of
\* every entry are ascending without duplicates, and repeating the last call
\* with the same accounts and date changes nothing except lastUpdated.
C30_ManifestWellFormed ==
    /\ LET slugs == [i \in DOMAIN manifest.accounts |-> slugify(manifest.accounts[i].name)]
       IN \A i, j \in DOMAIN slugs : slugs[i] = slugs[j] => i = j
    /\ \A i \in DOMAIN manifest.accounts :
           LET dates == manifest.accounts[i].dates
           IN \A k \in 1..(Len(dates) - 1) : DateNumber(dates[k]) < DateNumber(dates[k + 1])
    /\ calls # <<>> =>
           LET last == calls[Len(calls)]
               again == updateManifest(manifest, last.accounts, last.date, Len(calls) + 1)
           IN again = [manifest EXCEPT !.lastUpdated = toISOString(Len(calls) + 1)]

\* a later day was recorded first, then an earlier day for two accounts of one
\* slug, and that call was repeated
C30_Witness ==
    /\ pc = "manifest"
    /\ Len(calls) = 3
    /\ calls[1].date = "2024-03-10" /\ calls[2].date = Today /\ calls[3] = calls[2]
    /\ calls[2].accounts = <<DefaultAccount, AcmeLoud>>
    /\ Len(manifest.accounts) = 1
    /\ manifest.accounts[1].dates = <<Today, "2024-03-10">>
    /\ manifest.lastUpdated = toISOString(3)

RECURSIVE Survivors(_, _, _)
\* the accounts at the first k positions of a list, without the positions in failed
Survivors(accounts, k, failed) ==
    IF k = 0 THEN <<>>
    ELSE IF k \in failed THEN Survivors(accounts, k - 1, failed)
    ELSE Append(Survivors(accounts, k - 1, failed), accounts[k])

\* C29: in every run of main the accounts passed to updateManifest are exactly
\* the active accounts whose audit file was written in this run, in processing
\* order: an account is recorded only once writeAuditFile returned, an account
\* whose collection, audit or write throws is left out, such a failure does
\* not keep the remaining accounts from being audited, and updateManifest and
\* gitPush are invoked only if at least one account was audited.
C29_ManifestGetsWrittenAccounts ==
    /\ Len(auditedAccounts) = Len(written)
    /\ \A i \in DOMAIN written :
           /\ written[i].name = auditedAccounts[i].name.s
           /\ written[i].customerId = auditedAccounts[i].customerId
           /\ written[i].path = slugify(auditedAccounts[i].name.s) \o "/" \o Today \o ".json"
    /\ auditedAccounts = Survivors(activeAccounts, turn, thrown)
    /\ pc = "closed" => turn = Len(activeAccounts)
    /\ \A i \in DOMAIN calls : calls[i].accounts = auditedAccounts /\ calls[i].accounts # <<>>
    /\ Len(calls) = Len(pushes)
    /\ Len(calls) = IF pc = "closed" /\ auditedAccounts # <<>> THEN 1 ELSE 0

\* the first of three accounts threw, the other two were written and passed on
C29_Witness ==
    /\ pc = "closed"
    /\ Len(activeAccounts) = 3
    /\ thrown = {1}
    /\ Len(written) = 2
    /\ calls = <<[accounts |-> SubSeq(activeAccounts, 2, 3), date |-> Today]>>
    /\ pushes = <<Today>>
    /\ Len(manifest.accounts) = 2

====
